---- MODULE Spec2Model ----
(***************************************************************************)
(* Model of coordinate_converter.py: the WGS84 / GCJ02 / BD09 conversions, *)
(* followed by the models of the PDF splitters (split_pdf_by_bookmarks.py, *)
(* split_pdf_by_chapters.py), the subtitle converters (vvt_to_md.py,       *)
(* srt_to_md.py) and merge_md.py, each with a specification of its own.    *)
(*                                                                         *)
(* Python floats are modelled in two layers.                               *)
(*  - A finite number is a signed decimal fixed-point value with twelve    *)
(*    fractional digits, held as five base-10^4 limbs <<l1,l2,l3,l4,l5>>   *)
(*    (l1 least significant, l1..l4 in 0..9999, l5 signed), so that every  *)
(*    intermediate product stays inside TLC's 32-bit integers.  The value  *)
(*    is (l1 + l2*10^4 + l3*10^8 + l4*10^12 + l5*10^16) / 10^12.           *)
(*    Arithmetic rounds toward minus infinity at 10^-12; sqrt, sin, cos    *)
(*    and atan2 are computed by Newton iteration and Taylor series to      *)
(*    about 10^-10, far below the 10^-6 .. 10^-5 degree tolerances the     *)
(*    properties speak about.  Signed zeros are not distinguished.         *)
(*  - The IEEE-754 special values and Python's exceptions are tags of a    *)
(*    record: nan, inf, huge (the finite double 1e307 or -1e307, whose     *)
(*    square and whose product with X_PI overflow to inf),                 *)
(*    ValueError and ZeroDivisionError (an exception raised by math.* or   *)
(*    by "/" aborts the call, so it absorbs every later operation).        *)
(***************************************************************************)
EXTENDS Integers, Sequences, FiniteSets, TLC

-----------------------------------------------------------------------------
(* Fixed-point numbers: five limbs in base 10^4.                           *)

Base == 10 ^ 4

\* the fixed-point numbers
Fixed == Seq(Int)

RZero == <<0, 0, 0, 0, 0>>

ROne == <<0, 0, 0, 1, 0>>

\* carry propagation: limbs 1..4 into 0..Base-1, the top limb keeps the sign
Norm5(c1, c2, c3, c4, c5) ==
  LET d2 == c2 + (c1 \div Base)
      d3 == c3 + (d2 \div Base)
      d4 == c4 + (d3 \div Base)
  IN <<c1 % Base, d2 % Base, d3 % Base, d4 % Base, c5 + (d4 \div Base)>>

\* the decimal literal ip.f1f2f3 (ip integer part, f1 f2 f3 groups of 4 digits)
Dec(ip, f1, f2, f3) == Norm5(f3, f2, f1, ip, 0)

RInt(n) == Norm5(0, 0, 0, n, 0)

RAdd[a \in Fixed, b \in Fixed] == Norm5(a[1] + b[1], a[2] + b[2], a[3] + b[3], a[4] + b[4], a[5] + b[5])

RSub[a \in Fixed, b \in Fixed] == Norm5(a[1] - b[1], a[2] - b[2], a[3] - b[3], a[4] - b[4], a[5] - b[5])

RNeg[a \in Fixed] == Norm5(0 - a[1], 0 - a[2], 0 - a[3], 0 - a[4], 0 - a[5])

RSign(a) ==
  IF a[5] > 0 THEN 1
  ELSE IF a[5] < 0 THEN -1
  ELSE IF a[1] = 0 /\ a[2] = 0 /\ a[3] = 0 /\ a[4] = 0 THEN 0 ELSE 1

RAbs[a \in Fixed] == IF a[5] < 0 THEN RNeg[a] ELSE a

RLe[a \in Fixed, b \in Fixed] == RSign(RSub[b, a]) >= 0

RLt[a \in Fixed, b \in Fixed] == RSign(RSub[b, a]) > 0

\* floor of the value (an integer)
RFloor(a) == a[5] * Base + a[4]

\* a * b, rounded down at 10^-12
RMul[a \in Fixed, b \in Fixed] ==
  LET c1 == a[1]*b[1]
      c2 == a[1]*b[2] + a[2]*b[1] + (c1 \div Base)
      c3 == a[1]*b[3] + a[2]*b[2] + a[3]*b[1] + (c2 \div Base)
      c4 == a[1]*b[4] + a[2]*b[3] + a[3]*b[2] + a[4]*b[1] + (c3 \div Base)
      c5 == a[1]*b[5] + a[2]*b[4] + a[3]*b[3] + a[4]*b[2] + a[5]*b[1] + (c4 \div Base)
      c6 == a[2]*b[5] + a[3]*b[4] + a[4]*b[3] + a[5]*b[2] + (c5 \div Base)
      c7 == a[3]*b[5] + a[4]*b[4] + a[5]*b[3] + (c6 \div Base)
      c8 == a[4]*b[5] + a[5]*b[4] + (c7 \div Base)
  IN <<c4 % Base, c5 % Base, c6 % Base, c7 % Base, c8 + a[5]*b[5]*Base>>

\* a * n for a small integer n
RMulInt[a \in Fixed, n \in Int] == Norm5(a[1]*n, a[2]*n, a[3]*n, a[4]*n, a[5]*n)

\* a / n for an integer n in 1..10^5, rounded down at 10^-12
RDivInt[a \in Fixed, n \in Int] ==
  LET t4 == (a[5] % n) * Base + a[4]
      t3 == (t4 % n) * Base + a[3]
      t2 == (t3 % n) * Base + a[2]
      t1 == (t2 % n) * Base + a[1]
  IN <<t1 \div n, t2 \div n, t3 \div n, t4 \div n, a[5] \div n>>

\* the decimal exponent e of a positive b: b * 10^-e lies in [1, 10)
RExp10(b) ==
  LET ip == RFloor(b)
  IN IF ip >= 100000000 THEN 8
     ELSE IF ip >= 10000000 THEN 7
     ELSE IF ip >= 1000000 THEN 6
     ELSE IF ip >= 100000 THEN 5
     ELSE IF ip >= 10000 THEN 4
     ELSE IF ip >= 1000 THEN 3
     ELSE IF ip >= 100 THEN 2
     ELSE IF ip >= 10 THEN 1
     ELSE IF ip >= 1 THEN 0
     ELSE IF b[3] >= 1000 THEN -1
     ELSE IF b[3] >= 100 THEN -2
     ELSE IF b[3] >= 10 THEN -3
     ELSE IF b[3] >= 1 THEN -4
     ELSE IF b[2] >= 1000 THEN -5
     ELSE IF b[2] >= 100 THEN -6
     ELSE IF b[2] >= 10 THEN -7
     ELSE IF b[2] >= 1 THEN -8
     ELSE IF b[1] >= 1000 THEN -9
     ELSE IF b[1] >= 100 THEN -10
     ELSE IF b[1] >= 10 THEN -11
     ELSE -12

\* a * 10^e for e in -12..12
RScale10[a \in Fixed, e \in Int] ==
  IF e = 0 THEN a
  ELSE IF e > 8 THEN RMulInt[RMulInt[RMulInt[a, Base], Base], 10 ^ (e - 8)]
  ELSE IF e > 4 THEN RMulInt[RMulInt[a, Base], 10 ^ (e - 4)]
  ELSE IF e > 0 THEN RMulInt[a, 10 ^ e]
  ELSE IF e >= -4 THEN RDivInt[a, 10 ^ (0 - e)]
  ELSE IF e >= -8 THEN RDivInt[RDivInt[a, Base], 10 ^ (0 - e - 4)]
  ELSE RDivInt[RDivInt[RDivInt[a, Base], Base], 10 ^ (0 - e - 8)]

\* first guess of 1 / m for m in [1, 10): an integer quotient on five digits
RRecipGuess(m) == Norm5(0, (1000000000 \div (m[4] * Base + m[3])) * 1000, 0, 0, 0)

\* one Newton step for 1 / m: r * (2 - m*r)
RRecipStep[m \in Fixed, r \in Fixed] == RMul[r, RSub[RInt(2), RMul[m, r]]]

\* 1 / m for m in [1, 10)
RRecip1[m \in Fixed] == RRecipStep[m, RRecipStep[m, RRecipStep[m, RRecipGuess(m)]]]

\* pa / pb for positive pb with decimal exponent e
RDivScaled[pa \in Fixed, pb \in Fixed, e \in Int] == RMul[RScale10[pa, 0 - e], RRecip1[RScale10[pb, 0 - e]]]

\* q with the sign sg
RWithSign[sg \in Int, q \in Fixed] == IF sg < 0 THEN RNeg[q] ELSE q

\* a / b for b # 0
RDiv[a \in Fixed, b \in Fixed] ==
  RWithSign[RSign(a) * RSign(b), RDivScaled[RAbs[a], RAbs[b], RExp10(RAbs[b])]]

\* the even decimal exponent 2*j of a positive v: v * 10^(-2j) lies in [1, 100)
RSqrtExp(v) == RExp10(v) \div 2

\* first guess of 1/sqrt(m) for m in [1, 100)
RRsqrtGuess(m) ==
  LET ip == RFloor(m)
  IN IF ip < 2 THEN Dec(0, 8500, 0, 0)
     ELSE IF ip < 4 THEN Dec(0, 6000, 0, 0)
     ELSE IF ip < 8 THEN Dec(0, 4200, 0, 0)
     ELSE IF ip < 16 THEN Dec(0, 3000, 0, 0)
     ELSE IF ip < 32 THEN Dec(0, 2100, 0, 0)
     ELSE IF ip < 64 THEN Dec(0, 1500, 0, 0)
     ELSE Dec(0, 1100, 0, 0)

\* one Newton step for 1/sqrt(m): y * (3 - m*y*y) / 2
RRsqrtStep[m \in Fixed, y \in Fixed] == RDivInt[RMul[y, RSub[RInt(3), RMul[m, RMul[y, y]]]], 2]

\* sqrt(m) for m in [1, 100): m * (1/sqrt(m)) after five Newton steps
RSqrtNewton[m \in Fixed] ==
  RMul[m, RRsqrtStep[m, RRsqrtStep[m, RRsqrtStep[m, RRsqrtStep[m,
            RRsqrtStep[m, RRsqrtGuess(m)]]]]]]

\* sqrt(v) for positive v with even decimal exponent 2*j
RSqrtScaled[v \in Fixed, j \in Int] == RScale10[RSqrtNewton[RScale10[v, 0 - 2 * j]], j]

\* sqrt(v) for v >= 0
RSqrt[v \in Fixed] == IF RSign(v) = 0 THEN RZero ELSE RSqrtScaled[v, RSqrtExp(v)]

\* constants of the sine evaluation: 2*pi, pi, pi/2, 1/(2*pi)
TwoPi == Dec(6, 2831, 8530, 7180)

OnePi == Dec(3, 1415, 9265, 3590)

HalfPi == Dec(1, 5707, 9632, 6795)

InvTwoPi == Dec(0, 1591, 5494, 3092)

\* acc is the Taylor series of sin(r)/r from its term n+1 on,
\* 1 - x2/((2n+2)(2n+3)) * (1 - ...); the result is the series from term 1
SinHorner[x2 \in Fixed, n \in Int, acc \in Fixed] ==
  IF n = 0 THEN acc
  ELSE SinHorner[x2, n - 1, RSub[ROne, RMul[RDivInt[x2, 2 * n * (2 * n + 1)], acc]]]

\* x less k whole turns
SinPeriod[x \in Fixed, k \in Int] == RSub[x, RMulInt[TwoPi, k]]

\* [0, 2*pi) onto (-pi, pi]
SinWrap[r \in Fixed] == IF RLt[OnePi, r] THEN RSub[r, TwoPi] ELSE r

\* (-pi, pi] onto [-pi/2, pi/2], the sine kept
SinFold[r \in Fixed] ==
  IF RLt[HalfPi, r] THEN RSub[OnePi, r]
  ELSE IF RLt[r, RNeg[HalfPi]] THEN RSub[RNeg[OnePi], r]
  ELSE r

\* the argument folded into [-pi/2, pi/2] with the same sine
SinReduce[x \in Fixed] == SinFold[SinWrap[SinPeriod[x, RFloor(RMul[x, InvTwoPi])]]]

\* sin(r) for r in [-pi/2, pi/2]
SinSeries[r \in Fixed] == RMul[r, SinHorner[RMul[r, r], 9, ROne]]

RSin[x \in Fixed] == SinSeries[SinReduce[x]]

RCos[x \in Fixed] == RSin[RAdd[x, HalfPi]]

\* first guess of atan(t) for t in [0, 1]: t / (1 + 0.28 t^2), within 0.005
RAtanGuess[t \in Fixed] == RDiv[t, RAdd[ROne, RMul[Dec(0, 2800, 0, 0), RMul[t, t]]]]

\* one Newton step for the angle of the unit vector (c, s)
RAtanStep[c \in Fixed, s \in Fixed, th \in Fixed] == RAdd[th, RSub[RMul[s, RCos[th]], RMul[c, RSin[th]]]]

\* two Newton steps from th
RAtanNewton[c \in Fixed, s \in Fixed, th \in Fixed] == RAtanStep[c, s, RAtanStep[c, s, th]]

\* the angle of (xn, yn), a vector of length h, from the estimate th
RAtanUnit[xn \in Fixed, yn \in Fixed, h \in Fixed, th \in Fixed] == RAtanNewton[RDiv[xn, h], RDiv[yn, h], th]

\* the angle of (xn, yn), whose larger coordinate is 1 or -1
RAtanNormed[xn \in Fixed, yn \in Fixed, th \in Fixed] ==
  RAtanUnit[xn, yn, RSqrt[RAdd[RMul[xn, xn], RMul[yn, yn]]], th]

RMax[a \in Fixed, b \in Fixed] == IF RLe[a, b] THEN b ELSE a

\* estimate of the angle of (ax, ay) in the first quadrant
RAtanFirst[ax \in Fixed, ay \in Fixed] ==
  IF RLe[ay, ax] THEN RAtanGuess[RDiv[ay, ax]]
  ELSE RSub[HalfPi, RAtanGuess[RDiv[ax, ay]]]

\* the first-quadrant angle phi taken to the quadrant of (x, y)
RAtanQuadrant[x \in Fixed, y \in Fixed, phi \in Fixed] ==
  IF RSign(x) >= 0
  THEN (IF RSign(y) >= 0 THEN phi ELSE RNeg[phi])
  ELSE (IF RSign(y) >= 0 THEN RSub[OnePi, phi] ELSE RNeg[RSub[OnePi, phi]])

\* the angle of (x, y), mx the larger of |x| and |y|
RAtanScaled[x \in Fixed, y \in Fixed, mx \in Fixed, th \in Fixed] == RAtanNormed[RDiv[x, mx], RDiv[y, mx], th]

\* atan2(y, x) in (-pi, pi]
RAtan2[y \in Fixed, x \in Fixed] ==
  IF RSign(x) = 0 /\ RSign(y) = 0 THEN RZero
  ELSE RAtanScaled[x, y, RMax[RAbs[x], RAbs[y]],
                   RAtanQuadrant[x, y, RAtanFirst[RAbs[x], RAbs[y]]]]

-----------------------------------------------------------------------------
(* Python float values: finite numbers, IEEE-754 specials, raised exceptions *)

\* the float values
Float == [k : STRING, s : Int, v : Fixed]

Num(v) == [k |-> "num", s |-> 0, v |-> v]

NaN == [k |-> "nan", s |-> 0, v |-> RZero]

Inf(sg) == [k |-> "inf", s |-> sg, v |-> RZero]

\* the finite double sg * 1e307: x*x and x*X_PI overflow to inf
Huge(sg) == [k |-> "huge", s |-> sg, v |-> RZero]

ValueError == [k |-> "ValueError", s |-> 0, v |-> RZero]

ZeroDivisionError == [k |-> "ZeroDivisionError", s |-> 0, v |-> RZero]

\* the float literal ip.f1f2f3
Lit(ip, f1, f2, f3) == Num(Dec(ip, f1, f2, f3))

IsExc(x) == x.k \in {"ValueError", "ZeroDivisionError"}

IsNum(x) == x.k = "num"

IsFinite(x) == x.k \in {"num", "huge"}

FSign(x) == IF x.k = "num" THEN RSign(x.v) ELSE x.s

IsZero(x) == x.k = "num" /\ RSign(x.v) = 0

\* position on the extended real line: -inf < -huge < numbers < huge < inf
FRank(x) == IF x.k = "inf" THEN 2 * x.s ELSE IF x.k = "huge" THEN x.s ELSE 0

\* x <= y (every ordered comparison with nan is false)
FLe[x \in Float, y \in Float] ==
  IF x.k = "nan" \/ y.k = "nan" THEN FALSE
  ELSE IF x.k = "num" /\ y.k = "num" THEN RLe[x.v, y.v]
  ELSE FRank(x) <= FRank(y)

\* the results that the huge abstraction leaves open are never produced by
\* a call path of the converter; they are given as nan
FAdd[x \in Float, y \in Float] ==
  IF IsExc(x) THEN x
  ELSE IF IsExc(y) THEN y
  ELSE IF x.k = "nan" \/ y.k = "nan" THEN NaN
  ELSE IF x.k = "inf" THEN (IF y.k = "inf" /\ y.s # x.s THEN NaN ELSE x)
  ELSE IF y.k = "inf" THEN y
  ELSE IF x.k = "huge" THEN (IF y.k = "huge" THEN NaN ELSE x)
  ELSE IF y.k = "huge" THEN y
  ELSE Num(RAdd[x.v, y.v])

FNeg[x \in Float] ==
  IF IsExc(x) \/ x.k = "nan" THEN x
  ELSE IF x.k = "num" THEN Num(RNeg[x.v])
  ELSE [x EXCEPT !.s = 0 - x.s]

FSub[x \in Float, y \in Float] == IF IsExc(x) THEN x ELSE FAdd[x, FNeg[y]]

FMul[x \in Float, y \in Float] ==
  IF IsExc(x) THEN x
  ELSE IF IsExc(y) THEN y
  ELSE IF x.k = "nan" \/ y.k = "nan" THEN NaN
  ELSE IF x.k = "num" /\ y.k = "num" THEN Num(RMul[x.v, y.v])
  ELSE IF x.k = "inf" \/ y.k = "inf"
       THEN (IF IsZero(x) \/ IsZero(y) THEN NaN ELSE Inf(FSign(x) * FSign(y)))
  ELSE IF x.k = "huge" /\ y.k = "huge" THEN Inf(x.s * y.s)
  ELSE IF IsZero(x) \/ IsZero(y) THEN Num(RZero)
  ELSE LET n == IF x.k = "num" THEN x ELSE y
       IN IF RLe[RInt(18), RAbs[n.v]] THEN Inf(FSign(x) * FSign(y))
          ELSE IF RLe[ROne, RAbs[n.v]] THEN Huge(FSign(x) * FSign(y))
          ELSE NaN

\* Python's "/" raises ZeroDivisionError on a zero divisor
FDiv[x \in Float, y \in Float] ==
  IF IsExc(x) THEN x
  ELSE IF IsExc(y) THEN y
  ELSE IF IsZero(y) THEN ZeroDivisionError
  ELSE IF x.k = "nan" \/ y.k = "nan" THEN NaN
  ELSE IF x.k = "num" /\ y.k = "num" THEN Num(RDiv[x.v, y.v])
  ELSE IF y.k = "inf" THEN (IF x.k = "inf" THEN NaN ELSE Num(RZero))
  ELSE IF x.k = "inf" THEN Inf(x.s * FSign(y))
  ELSE IF x.k = "num" THEN Num(RZero)
  ELSE NaN

FAbs[x \in Float] ==
  IF IsExc(x) \/ x.k = "nan" THEN x
  ELSE IF x.k = "num" THEN Num(RAbs[x.v])
  ELSE [x EXCEPT !.s = 1]

\* math.sqrt: ValueError on a negative argument
math_sqrt[x \in Float] ==
  IF IsExc(x) \/ x.k = "nan" THEN x
  ELSE IF FSign(x) < 0 THEN ValueError
  ELSE IF x.k = "num" THEN Num(RSqrt[x.v])
  ELSE IF x.k = "inf" THEN x
  ELSE NaN

\* math.sin: ValueError on an infinite argument
math_sin[x \in Float] ==
  IF IsExc(x) \/ x.k = "nan" THEN x
  ELSE IF x.k = "inf" THEN ValueError
  ELSE IF x.k = "num" THEN Num(RSin[x.v])
  ELSE NaN

\* math.cos: ValueError on an infinite argument
math_cos[x \in Float] ==
  IF IsExc(x) \/ x.k = "nan" THEN x
  ELSE IF x.k = "inf" THEN ValueError
  ELSE IF x.k = "num" THEN Num(RCos[x.v])
  ELSE NaN

\* math.atan2: defined for every pair of floats
math_atan2[y \in Float, x \in Float] ==
  IF IsExc(y) THEN y
  ELSE IF IsExc(x) THEN x
  ELSE IF x.k = "nan" \/ y.k = "nan" THEN NaN
  ELSE IF x.k = "num" /\ y.k = "num" THEN Num(RAtan2[y.v, x.v])
  ELSE IF x.k = "inf" /\ y.k = "inf"
       THEN Num(RMulInt[RDivInt[HalfPi, 2], y.s * (2 - x.s)])
  ELSE IF FRank(x) = FRank(y) \/ FRank(x) + FRank(y) = 0 THEN NaN
  ELSE IF FRank(x) > FRank(y) /\ FRank(x) + FRank(y) > 0 THEN Num(RZero)
  ELSE IF FRank(x) < FRank(y) /\ FRank(x) + FRank(y) > 0 THEN Num(HalfPi)
  ELSE IF FRank(y) < FRank(x) THEN Num(RNeg[HalfPi])
  ELSE IF FSign(y) < 0 THEN Num(RNeg[OnePi])
  ELSE Num(OnePi)

-----------------------------------------------------------------------------
(* Module constants of coordinate_converter.py                             *)

math_pi == Num(OnePi)

X_PI == FDiv[FMul[math_pi, Lit(3000, 0, 0, 0)], Lit(180, 0, 0, 0)]

PI == math_pi

A == Lit(6378245, 0, 0, 0)

EE == Lit(0, 66, 9342, 1623)

CHINA_LON_MIN == Lit(73, 6600, 0, 0)

CHINA_LON_MAX == Lit(135, 500, 0, 0)

CHINA_LAT_MIN == Lit(3, 8600, 0, 0)

CHINA_LAT_MAX == Lit(53, 5500, 0, 0)

\* the module namespace after import: what the functions read at call time
ModuleGlobals ==
  [X_PI |-> X_PI, PI |-> PI, A |-> A, EE |-> EE,
   CHINA_LON_MIN |-> CHINA_LON_MIN, CHINA_LON_MAX |-> CHINA_LON_MAX,
   CHINA_LAT_MIN |-> CHINA_LAT_MIN, CHINA_LAT_MAX |-> CHINA_LAT_MAX]

-----------------------------------------------------------------------------
(* Python expressions.  A function body is built as the expression it      *)
(* computes, its local variables substituted, and Eval (below) gives the   *)
(* expression its value.  A float value is an expression by itself.        *)

Add(a, b) == [op |-> "Add", xs |-> <<a, b>>]

Sub(a, b) == [op |-> "Sub", xs |-> <<a, b>>]

Mult(a, b) == [op |-> "Mult", xs |-> <<a, b>>]

Div(a, b) == [op |-> "Div", xs |-> <<a, b>>]

USub(a) == [op |-> "USub", xs |-> <<a>>]

Abs(a) == [op |-> "abs", xs |-> <<a>>]

Sqrt(a) == [op |-> "sqrt", xs |-> <<a>>]

Sin(a) == [op |-> "sin", xs |-> <<a>>]

Cos(a) == [op |-> "cos", xs |-> <<a>>]

Atan2(y, x) == [op |-> "atan2", xs |-> <<y, x>>]

\* a <= b
LtE(a, b) == [op |-> "LtE", xs |-> <<a, b>>]

\* a and b
And(a, b) == [op |-> "And", xs |-> <<a, b>>]

\* not a
Not(a) == [op |-> "Not", xs |-> <<a>>]

\* "if c: return a" followed by "return b"
IfReturn(c, a, b) == [op |-> "IfReturn", xs |-> <<c, a, b>>]

\* the pair "a, b"
Tuple(a, b) == [op |-> "Tuple", xs |-> <<a, b>>]

\* the i-th item of the pair display p
Item(p, i) == p.xs[i]

\* fn(*p): the method fn of CoordinateConverter called on the items of the
\* pair p, under the module namespace g
CallMethod(fn, g, p) == [op |-> "Call", fn |-> fn, g |-> g, xs |-> <<p>>]

-----------------------------------------------------------------------------
(* class CoordinateConverter; g is the module namespace the call reads     *)

\* a box whose upper edges are excluded
is_in_china_exclusive(g, lon, lat) ==
  And(And(And(LtE(g.CHINA_LON_MIN, lon), Not(LtE(g.CHINA_LON_MAX, lon))),
          LtE(g.CHINA_LAT_MIN, lat)),
      Not(LtE(g.CHINA_LAT_MAX, lat)))

is_in_china(g, lon, lat) ==
  And(And(LtE(g.CHINA_LON_MIN, lon), LtE(lon, g.CHINA_LON_MAX)),
      And(LtE(g.CHINA_LAT_MIN, lat), LtE(lat, g.CHINA_LAT_MAX)))

\* (s1 + s2) * 2.0 / 3.0
TwoThirds(x) == Div(Mult(x, Lit(2, 0, 0, 0)), Lit(3, 0, 0, 0))

transform_lon(g, lon, lat) ==
  LET tenth == Lit(0, 1000, 0, 0)
      ret0 == Add(Add(Add(Add(Add(Lit(300, 0, 0, 0), lon),
                                  Mult(Lit(2, 0, 0, 0), lat)),
                              Mult(Mult(tenth, lon), lon)),
                          Mult(Mult(tenth, lon), lat)),
                      Mult(tenth, Sqrt(Abs(lon))))
      ret1 == Add(ret0, TwoThirds(Add(
                Mult(Lit(20, 0, 0, 0), Sin(Mult(Mult(Lit(6, 0, 0, 0), lon), g.PI))),
                Mult(Lit(20, 0, 0, 0), Sin(Mult(Mult(Lit(2, 0, 0, 0), lon), g.PI))))))
      ret2 == Add(ret1, TwoThirds(Add(
                Mult(Lit(20, 0, 0, 0), Sin(Mult(lon, g.PI))),
                Mult(Lit(40, 0, 0, 0), Sin(Mult(Div(lon, Lit(3, 0, 0, 0)), g.PI))))))
      ret3 == Add(ret2, TwoThirds(Add(
                Mult(Lit(150, 0, 0, 0), Sin(Mult(Div(lon, Lit(12, 0, 0, 0)), g.PI))),
                Mult(Lit(300, 0, 0, 0), Sin(Mult(Div(lon, Lit(30, 0, 0, 0)), g.PI))))))
  IN ret3

transform_lat(g, lon, lat) ==
  LET ret0 == Add(Add(Add(Add(Add(USub(Lit(100, 0, 0, 0)),
                                  Mult(Lit(2, 0, 0, 0), lon)),
                              Mult(Lit(3, 0, 0, 0), lat)),
                          Mult(Mult(Lit(0, 2000, 0, 0), lat), lat)),
                      Mult(Mult(Lit(0, 1000, 0, 0), lon), lat)),
                  Mult(Lit(0, 2000, 0, 0), Sqrt(Abs(lon))))
      ret1 == Add(ret0, TwoThirds(Add(
                Mult(Lit(20, 0, 0, 0), Sin(Mult(Mult(Lit(6, 0, 0, 0), lon), g.PI))),
                Mult(Lit(20, 0, 0, 0), Sin(Mult(Mult(Lit(2, 0, 0, 0), lon), g.PI))))))
      ret2 == Add(ret1, TwoThirds(Add(
                Mult(Lit(20, 0, 0, 0), Sin(Mult(lat, g.PI))),
                Mult(Lit(40, 0, 0, 0), Sin(Mult(Div(lat, Lit(3, 0, 0, 0)), g.PI))))))
      ret3 == Add(ret2, TwoThirds(Add(
                Mult(Lit(160, 0, 0, 0), Sin(Mult(Div(lat, Lit(12, 0, 0, 0)), g.PI))),
                Mult(Lit(320, 0, 0, 0), Sin(Div(Mult(lat, g.PI), Lit(30, 0, 0, 0)))))))
  IN ret3

\* lines 159-173: the offset of an in-China point, (mg_lon, mg_lat)
wgs84_to_gcj02_body(g, lon, lat) ==
  LET d_lat0 == transform_lat(g, Sub(lon, Lit(105, 0, 0, 0)), Sub(lat, Lit(35, 0, 0, 0)))
      d_lon0 == transform_lon(g, Sub(lon, Lit(105, 0, 0, 0)), Sub(lat, Lit(35, 0, 0, 0)))
      rad_lat == Mult(Div(lat, Lit(180, 0, 0, 0)), g.PI)
      magic0 == Sin(rad_lat)
      magic == Sub(Lit(1, 0, 0, 0), Mult(Mult(g.EE, magic0), magic0))
      sqrt_magic == Sqrt(magic)
      d_lat == Div(Mult(d_lat0, Lit(180, 0, 0, 0)),
                   Mult(Div(Mult(g.A, Sub(Lit(1, 0, 0, 0), g.EE)),
                            Mult(magic, sqrt_magic)), g.PI))
      d_lon == Div(Mult(d_lon0, Lit(180, 0, 0, 0)),
                   Mult(Mult(Div(g.A, sqrt_magic), Cos(rad_lat)), g.PI))
      mg_lat == Add(lat, d_lat)
      mg_lon == Add(lon, d_lon)
  IN Tuple(mg_lon, mg_lat)

\* the offset applied without the bounding-box test
wgs84_to_gcj02_ungated(g, lon, lat) == wgs84_to_gcj02_body(g, lon, lat)

CoordinateConverter_wgs84_to_gcj02(g, lon, lat) ==
  IfReturn(Not(is_in_china(g, lon, lat)), Tuple(lon, lat),
           wgs84_to_gcj02_body(g, lon, lat))

\* a second pass: the reflection repeated from the first estimate
gcj02_to_wgs84_two_pass(g, lon, lat) ==
  LET f0 == wgs84_to_gcj02_body(g, lon, lat)
      w_lon == Sub(Mult(lon, Lit(2, 0, 0, 0)), Item(f0, 1))
      w_lat == Sub(Mult(lat, Lit(2, 0, 0, 0)), Item(f0, 2))
      f1 == wgs84_to_gcj02_body(g, w_lon, w_lat)
  IN Tuple(Add(w_lon, Sub(lon, Item(f1, 1))), Add(w_lat, Sub(lat, Item(f1, 2))))

\* lines 189-203: the reflected offset of an in-China point
gcj02_to_wgs84_body(g, lon, lat) ==
  LET d_lat0 == transform_lat(g, Sub(lon, Lit(105, 0, 0, 0)), Sub(lat, Lit(35, 0, 0, 0)))
      d_lon0 == transform_lon(g, Sub(lon, Lit(105, 0, 0, 0)), Sub(lat, Lit(35, 0, 0, 0)))
      rad_lat == Mult(Div(lat, Lit(180, 0, 0, 0)), g.PI)
      magic0 == Sin(rad_lat)
      magic == Sub(Lit(1, 0, 0, 0), Mult(Mult(g.EE, magic0), magic0))
      sqrt_magic == Sqrt(magic)
      d_lat == Div(Mult(d_lat0, Lit(180, 0, 0, 0)),
                   Mult(Div(Mult(g.A, Sub(Lit(1, 0, 0, 0), g.EE)),
                            Mult(magic, sqrt_magic)), g.PI))
      d_lon == Div(Mult(d_lon0, Lit(180, 0, 0, 0)),
                   Mult(Mult(Div(g.A, sqrt_magic), Cos(rad_lat)), g.PI))
      mg_lat == Add(lat, d_lat)
      mg_lon == Add(lon, d_lon)
  IN Tuple(Sub(Mult(lon, Lit(2, 0, 0, 0)), mg_lon), Sub(Mult(lat, Lit(2, 0, 0, 0)), mg_lat))

CoordinateConverter_gcj02_to_wgs84(g, lon, lat) ==
  IfReturn(Not(is_in_china(g, lon, lat)), Tuple(lon, lat),
           gcj02_to_wgs84_body(g, lon, lat))

\* lines 216-217: (z, theta)
gcj02_to_bd09_polar(g, lon, lat) ==
  LET z == Add(Sqrt(Add(Mult(lon, lon), Mult(lat, lat))),
               Mult(Lit(0, 0, 2000, 0), Sin(Mult(lat, g.X_PI))))
      theta == Add(Atan2(lat, lon),
                   Mult(Lit(0, 0, 300, 0), Cos(Mult(lon, g.X_PI))))
  IN Tuple(z, theta)

\* lines 218-220: (bd_lon, bd_lat)
gcj02_to_bd09_project(z, theta) ==
  LET bd_lon == Add(Mult(z, Cos(theta)), Lit(0, 65, 0, 0))
      bd_lat == Add(Mult(z, Sin(theta)), Lit(0, 60, 0, 0))
  IN Tuple(bd_lon, bd_lat)

\* the polar offset applied only inside the bounding box
gcj02_to_bd09_gated(g, lon, lat) ==
  IfReturn(Not(is_in_china(g, lon, lat)), Tuple(lon, lat),
           gcj02_to_bd09_project(Item(gcj02_to_bd09_polar(g, lon, lat), 1),
                                 Item(gcj02_to_bd09_polar(g, lon, lat), 2)))

CoordinateConverter_gcj02_to_bd09(g, lon, lat) ==
  gcj02_to_bd09_project(Item(gcj02_to_bd09_polar(g, lon, lat), 1),
                        Item(gcj02_to_bd09_polar(g, lon, lat), 2))

\* the inverse taken without removing the fixed offsets first
bd09_to_gcj02_polar_unshifted(g, lon, lat) ==
  LET z == Sub(Sqrt(Add(Mult(lon, lon), Mult(lat, lat))),
               Mult(Lit(0, 0, 2000, 0), Sin(Mult(lat, g.X_PI))))
      theta == Sub(Atan2(lat, lon),
                   Mult(Lit(0, 0, 300, 0), Cos(Mult(lon, g.X_PI))))
  IN Tuple(z, theta)

\* lines 230-233: (z, theta)
bd09_to_gcj02_polar(g, lon, lat) ==
  LET x == Sub(lon, Lit(0, 65, 0, 0))
      y == Sub(lat, Lit(0, 60, 0, 0))
      z == Sub(Sqrt(Add(Mult(x, x), Mult(y, y))),
               Mult(Lit(0, 0, 2000, 0), Sin(Mult(y, g.X_PI))))
      theta == Sub(Atan2(y, x),
                   Mult(Lit(0, 0, 300, 0), Cos(Mult(x, g.X_PI))))
  IN Tuple(z, theta)

\* lines 234-236: (gcj_lon, gcj_lat)
bd09_to_gcj02_project(z, theta) ==
  LET gcj_lon == Mult(z, Cos(theta))
      gcj_lat == Mult(z, Sin(theta))
  IN Tuple(gcj_lon, gcj_lat)

CoordinateConverter_bd09_to_gcj02(g, lon, lat) ==
  bd09_to_gcj02_project(Item(bd09_to_gcj02_polar(g, lon, lat), 1),
                        Item(bd09_to_gcj02_polar(g, lon, lat), 2))

\* the BD09 offset applied to the WGS84 point itself
wgs84_to_bd09_direct(g, lon, lat) == CoordinateConverter_gcj02_to_bd09(g, lon, lat)

\* lines 248-249: gcj02_to_bd09 called on the pair wgs84_to_gcj02 returned
CoordinateConverter_wgs84_to_bd09(g, lon, lat) ==
  CallMethod("gcj02_to_bd09", g, CoordinateConverter_wgs84_to_gcj02(g, lon, lat))

\* lines 261-262: gcj02_to_wgs84 called on the pair bd09_to_gcj02 returned
CoordinateConverter_bd09_to_wgs84(g, lon, lat) ==
  CallMethod("gcj02_to_wgs84", g, CoordinateConverter_bd09_to_gcj02(g, lon, lat))

\* the module-level functions kept for backward compatibility
wgs84_to_gcj02(g, lon, lat) == CoordinateConverter_wgs84_to_gcj02(g, lon, lat)

\* the wrapper bound to the conversion of the opposite direction
gcj02_to_wgs84_swapped(g, lon, lat) == CoordinateConverter_wgs84_to_gcj02(g, lon, lat)

gcj02_to_wgs84(g, lon, lat) == CoordinateConverter_gcj02_to_wgs84(g, lon, lat)

gcj02_to_bd09(g, lon, lat) == CoordinateConverter_gcj02_to_bd09(g, lon, lat)

bd09_to_gcj02(g, lon, lat) == CoordinateConverter_bd09_to_gcj02(g, lon, lat)

wgs84_to_bd09(g, lon, lat) == CoordinateConverter_wgs84_to_bd09(g, lon, lat)

bd09_to_wgs84(g, lon, lat) == CoordinateConverter_bd09_to_wgs84(g, lon, lat)

-----------------------------------------------------------------------------
(* Evaluation                                                              *)

\* the body of the method fn, its parameters bound to lon and lat
ApplyClass(fn, g, lon, lat) ==
  CASE fn = "wgs84_to_gcj02" -> CoordinateConverter_wgs84_to_gcj02(g, lon, lat)
    [] fn = "gcj02_to_wgs84" -> CoordinateConverter_gcj02_to_wgs84(g, lon, lat)
    [] fn = "gcj02_to_bd09" -> CoordinateConverter_gcj02_to_bd09(g, lon, lat)
    [] fn = "bd09_to_gcj02" -> CoordinateConverter_bd09_to_gcj02(g, lon, lat)
    [] fn = "wgs84_to_bd09" -> CoordinateConverter_wgs84_to_bd09(g, lon, lat)
    [] fn = "bd09_to_wgs84" -> CoordinateConverter_bd09_to_wgs84(g, lon, lat)

\* the body of the module-level function fn
ApplyFlat(fn, g, lon, lat) ==
  CASE fn = "wgs84_to_gcj02" -> wgs84_to_gcj02(g, lon, lat)
    [] fn = "gcj02_to_wgs84" -> gcj02_to_wgs84(g, lon, lat)
    [] fn = "gcj02_to_bd09" -> gcj02_to_bd09(g, lon, lat)
    [] fn = "bd09_to_gcj02" -> bd09_to_gcj02(g, lon, lat)
    [] fn = "wgs84_to_bd09" -> wgs84_to_bd09(g, lon, lat)
    [] fn = "bd09_to_wgs84" -> bd09_to_wgs84(g, lon, lat)

Apply(api, fn, g, lon, lat) ==
  IF api = "class" THEN ApplyClass(fn, g, lon, lat) ELSE ApplyFlat(fn, g, lon, lat)

\* a call that raised leaves no tuple to unpack: the exception propagates
Raised(r) == IsExc(r[1]) \/ IsExc(r[2])

\* the value of the expression e: operands are evaluated left to right, a
\* raised exception passes through every later operation, "and" and the
\* early return evaluate no more than Python does, and a call evaluates the
\* argument pair before it enters the body
RECURSIVE Eval(_)
Eval(e) ==
  IF "k" \in DOMAIN e THEN e
  ELSE CASE e.op = "Add" -> FAdd[Eval(e.xs[1]), Eval(e.xs[2])]
         [] e.op = "Sub" -> FSub[Eval(e.xs[1]), Eval(e.xs[2])]
         [] e.op = "Mult" -> FMul[Eval(e.xs[1]), Eval(e.xs[2])]
         [] e.op = "Div" -> FDiv[Eval(e.xs[1]), Eval(e.xs[2])]
         [] e.op = "USub" -> FNeg[Eval(e.xs[1])]
         [] e.op = "abs" -> FAbs[Eval(e.xs[1])]
         [] e.op = "sqrt" -> math_sqrt[Eval(e.xs[1])]
         [] e.op = "sin" -> math_sin[Eval(e.xs[1])]
         [] e.op = "cos" -> math_cos[Eval(e.xs[1])]
         [] e.op = "atan2" -> math_atan2[Eval(e.xs[1]), Eval(e.xs[2])]
         [] e.op = "LtE" -> FLe[Eval(e.xs[1]), Eval(e.xs[2])]
         [] e.op = "And" -> Eval(e.xs[1]) /\ Eval(e.xs[2])
         [] e.op = "Not" -> ~Eval(e.xs[1])
         [] e.op = "IfReturn" -> IF Eval(e.xs[1]) THEN Eval(e.xs[2]) ELSE Eval(e.xs[3])
         [] e.op = "Tuple" -> <<Eval(e.xs[1]), Eval(e.xs[2])>>
         [] e.op = "Call" ->
              LET p == Eval(e.xs[1])
              IN IF Raised(p) THEN p ELSE Eval(ApplyClass(e.fn, e.g, p[1], p[2]))

-----------------------------------------------------------------------------
(* The callers: one call at a time, as the __main__ block makes them       *)

VARIABLES globals, pc, call, ret, prev, depth, tpc, tcall, frames, tret, overlap

\* the PDF splitters: the opened PDF, the chosen level, the lists the helper
\* functions return, the files written so far and the position in split_pdf
VARIABLES pdf_reader, split_level, bookmarks, bookmarks_info, chapters,
          output_dir, loop_i, loop_j, ppc

\* the subtitle converters: the file read and the text returned
VARIABLES content, processed_text, spc

\* merge_markdown_files: the directory, the list of files, the pieces
\* collected and the file written
VARIABLES input_dir, md_files, merged_content, merge_i, output, mpc

pdfvars == <<pdf_reader, split_level, bookmarks, bookmarks_info, chapters,
             output_dir, loop_i, loop_j, ppc>>

subvars == <<content, processed_text, spc>>

mdvars == <<input_dir, md_files, merged_content, merge_i, output, mpc>>

toolvars == <<pdfvars, subvars, mdvars>>

convvars == <<globals, pc, call, ret, prev, depth, tpc, tcall, frames, tret, overlap>>

vars == <<convvars, toolvars>>

seqvars == <<pc, call, ret, prev, depth>>

thrvars == <<tpc, tcall, frames, tret, overlap>>

\* sample points per axis of the China bounding box are 0..GridN
GridN == 3

\* how many times a result is fed to the reverse conversion
MaxChain == 1

\* concurrent callers
NumThreads == 2

Fns == {"wgs84_to_gcj02", "gcj02_to_wgs84", "gcj02_to_bd09",
        "bd09_to_gcj02", "wgs84_to_bd09", "bd09_to_wgs84"}

Apis == {"class", "flat"}

GridLon(i) ==
  Num(RAdd[CHINA_LON_MIN.v, RDivInt[RMulInt[RSub[CHINA_LON_MAX.v, CHINA_LON_MIN.v], i], GridN]])

GridLat(j) ==
  Num(RAdd[CHINA_LAT_MIN.v, RDivInt[RMulInt[RSub[CHINA_LAT_MAX.v, CHINA_LAT_MIN.v], j], GridN]])

\* a grid over the bounding box, its edges and corners included
BoxPoints == {<<GridLon(i), GridLat(j)>> : i \in 0..GridN, j \in 0..GridN}

\* the points of the __main__ block, the reference point of the offsets,
\* and the points where the two approximate inverses are at their worst
InteriorPoints ==
  {<<Lit(117, 740, 0, 0), Lit(30, 5440, 0, 0)>>,
   <<Lit(117, 680, 0, 0), Lit(30, 5380, 0, 0)>>,
   <<Lit(105, 0, 0, 0), Lit(35, 0, 0, 0)>>,
   <<Lit(128, 9933, 0, 0), Lit(53, 4811, 0, 0)>>,
   <<Lit(134, 5360, 0, 0), Lit(53, 4912, 0, 0)>>}

\* points outside the box: 0.01 degree beyond each edge, and far away
OutsidePoints ==
  {<<Lit(73, 6500, 0, 0), Lit(30, 0, 0, 0)>>,
   <<Lit(135, 600, 0, 0), Lit(30, 0, 0, 0)>>,
   <<Lit(100, 0, 0, 0), Lit(3, 8500, 0, 0)>>,
   <<Lit(100, 0, 0, 0), Lit(53, 5600, 0, 0)>>,
   <<Lit(0, 0, 0, 0), Lit(0, 0, 0, 0)>>,
   <<FNeg[Lit(74, 0, 0, 0)], Lit(40, 7000, 0, 0)>>,
   <<FNeg[Lit(180, 0, 0, 0)], FNeg[Lit(90, 0, 0, 0)]>>,
   <<Lit(1000, 0, 0, 0), Lit(1000, 0, 0, 0)>>}

\* nan, the infinities and the doubles +-1e307
SpecialPoints ==
  {<<NaN, Lit(30, 0, 0, 0)>>,
   <<Lit(100, 0, 0, 0), NaN>>,
   <<Inf(1), Lit(30, 0, 0, 0)>>,
   <<Lit(100, 0, 0, 0), Inf(-1)>>,
   <<Huge(1), Lit(0, 0, 0, 0)>>,
   <<Lit(100, 0, 0, 0), Huge(-1)>>}

Points == BoxPoints \cup InteriorPoints \cup OutsidePoints \cup SpecialPoints

NoCall == [api |-> "none", fn |-> "none", lon |-> NaN, lat |-> NaN]

NoRet == <<NaN, NaN>>

\* the conversion in the opposite direction (the "reverse check" of __main__)
Reverse(fn) ==
  CASE fn = "wgs84_to_gcj02" -> "gcj02_to_wgs84"
    [] fn = "gcj02_to_wgs84" -> "wgs84_to_gcj02"
    [] fn = "gcj02_to_bd09" -> "bd09_to_gcj02"
    [] fn = "bd09_to_gcj02" -> "gcj02_to_bd09"
    [] fn = "wgs84_to_bd09" -> "bd09_to_wgs84"
    [] fn = "bd09_to_wgs84" -> "wgs84_to_bd09"

Threads == 1..NumThreads

NoFrame == [lon |-> NaN, lat |-> NaN, a |-> NaN, b |-> NaN]

\* no PDF is open
NoPdf == [outline |-> <<>>, pages |-> 0]

\* the PDF splitters are not running
PdfIdle ==
  /\ pdf_reader = NoPdf
  /\ split_level = 0
  /\ bookmarks = <<>>
  /\ bookmarks_info = <<>>
  /\ chapters = <<>>
  /\ output_dir = <<>>
  /\ loop_i = 0
  /\ loop_j = 0
  /\ ppc = "idle"

\* the subtitle converters are not running
SubIdle ==
  /\ content = <<>>
  /\ processed_text = <<>>
  /\ spc = "idle"

\* merge_markdown_files is not running
MdIdle ==
  /\ input_dir = <<>>
  /\ md_files = <<>>
  /\ merged_content = <<>>
  /\ merge_i = 0
  /\ output = <<>>
  /\ mpc = "idle"

\* coordinate_converter imported, no call made
ConvIdle ==
  /\ globals = ModuleGlobals
  /\ pc = "idle"
  /\ call = NoCall
  /\ ret = NoRet
  /\ prev = NoCall
  /\ depth = 0
  /\ tpc = [t \in Threads |-> "idle"]
  /\ tcall = [t \in Threads |-> NoCall]
  /\ frames = [t \in Threads |-> NoFrame]
  /\ tret = [t \in Threads |-> NoRet]
  /\ overlap = FALSE

Init ==
  /\ ConvIdle
  /\ PdfIdle
  /\ SubIdle
  /\ MdIdle

\* a caller invokes one of the six conversions through one of the two surfaces
Call(api, fn, p) ==
  /\ pc = "idle"
  /\ call' = [api |-> api, fn |-> fn, lon |-> p[1], lat |-> p[2]]
  /\ pc' = "called"
  /\ UNCHANGED <<globals, ret, prev, depth>>
  /\ UNCHANGED thrvars
  /\ UNCHANGED toolvars

\* the conversion runs to its return statement (or to the raise)
Return ==
  /\ pc = "called"
  /\ ret' = Eval(Apply(call.api, call.fn, globals, call.lon, call.lat))
  /\ pc' = "returned"
  /\ UNCHANGED <<globals, call, prev, depth>>
  /\ UNCHANGED thrvars
  /\ UNCHANGED toolvars

\* the returned pair is passed to the reverse conversion (lines 339-343)
CallReverse ==
  /\ pc = "returned"
  /\ ~Raised(ret)
  /\ depth < MaxChain
  /\ prev' = call
  /\ call' = [api |-> call.api, fn |-> Reverse(call.fn), lon |-> ret[1], lat |-> ret[2]]
  /\ ret' = NoRet
  /\ depth' = depth + 1
  /\ pc' = "called"
  /\ UNCHANGED globals
  /\ UNCHANGED thrvars
  /\ UNCHANGED toolvars

\* the caller drops the result
Done ==
  /\ pc = "returned"
  /\ pc' = "idle"
  /\ call' = NoCall
  /\ ret' = NoRet
  /\ prev' = NoCall
  /\ depth' = 0
  /\ UNCHANGED globals
  /\ UNCHANGED thrvars
  /\ UNCHANGED toolvars

Next ==
  \/ \E api \in Apis, fn \in Fns, p \in Points : Call(api, fn, p)
  \/ Return
  \/ CallReverse
  \/ Done

Spec == Init /\ [][Next]_vars

-----------------------------------------------------------------------------
(* Concurrent callers: each thread makes one call, in two steps that may   *)
(* interleave with the steps of the other threads                          *)

\* every thread converts a point of its own: the first the GCJ02 point of
\* the __main__ block, the second a point just east of the box, the others
\* points of the box
ThreadPoint(t) ==
  IF t = 1 THEN <<Lit(117, 740, 0, 0), Lit(30, 5440, 0, 0)>>
  ELSE IF t = 2 THEN <<Lit(135, 600, 0, 0), Lit(30, 0, 0, 0)>>
  ELSE <<Lit(105 + t, 0, 0, 0), Lit(35, 0, 0, 0)>>

\* the conversions the threads call: both gated ones, a polar one and a
\* composite (which runs gcj02_to_bd09 as its second half)
ConcFns == {"wgs84_to_gcj02", "gcj02_to_wgs84", "bd09_to_gcj02", "wgs84_to_bd09"}

\* all the activations living in one place, as module-level scratch would
FrameOfShared(t) == 1

\* the activation record of a call: parameters and locals are its own
FrameOf(t) == t

\* the first half of a call: the bounding-box test, the polar form, or the
\* inner conversion of a composite
FirstStep(fn, g, f) ==
  CASE fn \in {"wgs84_to_gcj02", "gcj02_to_wgs84"} -> Not(is_in_china(g, f.lon, f.lat))
    [] fn = "gcj02_to_bd09" -> gcj02_to_bd09_polar(g, f.lon, f.lat)
    [] fn = "bd09_to_gcj02" -> bd09_to_gcj02_polar(g, f.lon, f.lat)
    [] fn = "wgs84_to_bd09" -> CoordinateConverter_wgs84_to_gcj02(g, f.lon, f.lat)
    [] fn = "bd09_to_wgs84" -> CoordinateConverter_bd09_to_gcj02(g, f.lon, f.lat)

\* the frame f with the pair q in its two locals
Stored(f, q) == [f EXCEPT !.a = q[1], !.b = q[2]]

\* the state of a call after its first half gave v: fin says that the call
\* has returned (or raised) with r, f is its frame
FirstOutcome(fn, f, v) ==
  CASE fn \in {"wgs84_to_gcj02", "gcj02_to_wgs84"} ->
         [fin |-> v, f |-> f, r |-> IF v THEN <<f.lon, f.lat>> ELSE NoRet]
    [] fn \in {"gcj02_to_bd09", "bd09_to_gcj02"} ->
         [fin |-> FALSE, f |-> Stored(f, v), r |-> NoRet]
    [] fn \in {"wgs84_to_bd09", "bd09_to_wgs84"} ->
         [fin |-> Raised(v), f |-> Stored(f, v), r |-> v]

\* the second half of a call, up to its return statement
SecondStep(fn, g, f) ==
  CASE fn = "wgs84_to_gcj02" -> wgs84_to_gcj02_body(g, f.lon, f.lat)
    [] fn = "gcj02_to_wgs84" -> gcj02_to_wgs84_body(g, f.lon, f.lat)
    [] fn = "gcj02_to_bd09" -> gcj02_to_bd09_project(f.a, f.b)
    [] fn = "bd09_to_gcj02" -> bd09_to_gcj02_project(f.a, f.b)
    [] fn = "wgs84_to_bd09" -> CoordinateConverter_gcj02_to_bd09(g, f.a, f.b)
    [] fn = "bd09_to_wgs84" -> CoordinateConverter_gcj02_to_wgs84(g, f.a, f.b)

Running(t) == tpc[t] \in {"entered", "mid"}

\* thread t calls fn: the arguments are bound in the call's frame
Enter(t, fn) ==
  /\ tpc[t] = "idle"
  /\ tcall' = [tcall EXCEPT ![t] = [api |-> "class", fn |-> fn,
                                    lon |-> ThreadPoint(t)[1], lat |-> ThreadPoint(t)[2]]]
  /\ frames' = [frames EXCEPT ![FrameOf(t)] =
                  [lon |-> ThreadPoint(t)[1], lat |-> ThreadPoint(t)[2], a |-> NaN, b |-> NaN]]
  /\ tpc' = [tpc EXCEPT ![t] = "entered"]
  /\ overlap' = (overlap \/ \E u \in Threads \ {t} : Running(u))
  /\ UNCHANGED <<globals, tret>>
  /\ UNCHANGED seqvars
  /\ UNCHANGED toolvars

\* the outcome st of the first half is written to the frame of the call
FirstDone(t, st) ==
  /\ frames' = [frames EXCEPT ![FrameOf(t)] = st.f]
  /\ tret' = [tret EXCEPT ![t] = st.r]
  /\ tpc' = [tpc EXCEPT ![t] = IF st.fin THEN "done" ELSE "mid"]

First(t) ==
  /\ tpc[t] = "entered"
  /\ FirstDone(t, FirstOutcome(tcall[t].fn, frames[FrameOf(t)],
                               Eval(FirstStep(tcall[t].fn, globals, frames[FrameOf(t)]))))
  /\ UNCHANGED <<globals, tcall, overlap>>
  /\ UNCHANGED seqvars
  /\ UNCHANGED toolvars

Second(t) ==
  /\ tpc[t] = "mid"
  /\ tret' = [tret EXCEPT ![t] = Eval(SecondStep(tcall[t].fn, globals, frames[FrameOf(t)]))]
  /\ tpc' = [tpc EXCEPT ![t] = "done"]
  /\ UNCHANGED <<globals, tcall, frames, overlap>>
  /\ UNCHANGED seqvars
  /\ UNCHANGED toolvars

NextConc ==
  \/ \E t \in Threads, fn \in ConcFns : Enter(t, fn)
  \/ \E t \in Threads : First(t)
  \/ \E t \in Threads : Second(t)

SpecConc == Init /\ [][NextConc]_vars

-----------------------------------------------------------------------------
(* Properties                                                              *)

\* |a - b| <= tol
Within(a, b, tol) == FLe[FAbs[FSub[a, b]], tol]

\* 73.66 <= lon <= 135.05 and 3.86 <= lat <= 53.55, stated on the numbers
InBox(lon, lat) ==
  /\ IsNum(lon) /\ IsNum(lat)
  /\ RLe[Dec(73, 6600, 0, 0), lon.v] /\ RLe[lon.v, Dec(135, 500, 0, 0)]
  /\ RLe[Dec(3, 8600, 0, 0), lat.v] /\ RLe[lat.v, Dec(53, 5500, 0, 0)]

\* a point of the box lying exactly on one of its four edges
OnEdge(lon, lat) ==
  /\ InBox(lon, lat)
  /\ \/ lon = Lit(73, 6600, 0, 0) \/ lon = Lit(135, 500, 0, 0)
     \/ lat = Lit(3, 8600, 0, 0) \/ lat = Lit(53, 5500, 0, 0)

\* what the method fn returns on (lon, lat)
Result(fn, g, lon, lat) == Eval(ApplyClass(fn, g, lon, lat))

\* outer(inner(lon, lat)), an exception of the inner call propagating
ComposeClass(outer, inner, g, lon, lat) ==
  LET m == Result(inner, g, lon, lat)
  IN IF Raised(m) THEN m ELSE Result(outer, g, m[1], m[2])

\* the value of is_in_china(lon, lat)
InChina(g, lon, lat) == Eval(is_in_china(g, lon, lat))

Returned(fn) == pc = "returned" /\ call.fn = fn

\* C1: a call of wgs84_to_gcj02 or gcj02_to_wgs84 on a point for which
\* is_in_china is false returns exactly the pair it was given.
C1_OutsideUnchanged ==
  (pc = "returned" /\ call.fn \in {"wgs84_to_gcj02", "gcj02_to_wgs84"}
     /\ ~InChina(globals, call.lon, call.lat))
  => ret = <<call.lon, call.lat>>

C1_Witness ==
  /\ Returned("gcj02_to_wgs84")
  /\ IsNum(call.lon) /\ IsNum(call.lat)
  /\ ~InChina(globals, call.lon, call.lat)
  /\ ret = <<call.lon, call.lat>>

\* C2: is_in_china is true exactly for 73.66 <= lon <= 135.05 and
\* 3.86 <= lat <= 53.55 (false for nan and the infinities), and a point on
\* an edge of the box is not returned unchanged by wgs84_to_gcj02 or
\* gcj02_to_wgs84: it gets the computed offset.
C2_InclusiveBox ==
  /\ pc # "idle" =>
       (InChina(globals, call.lon, call.lat) <=> InBox(call.lon, call.lat))
  /\ (Returned("wgs84_to_gcj02") /\ OnEdge(call.lon, call.lat)) =>
       /\ ret = Eval(wgs84_to_gcj02_body(globals, call.lon, call.lat))
       /\ ret # <<call.lon, call.lat>>
  /\ (Returned("gcj02_to_wgs84") /\ OnEdge(call.lon, call.lat)) =>
       /\ ret = Eval(gcj02_to_wgs84_body(globals, call.lon, call.lat))
       /\ ret # <<call.lon, call.lat>>

C2_Witness ==
  /\ Returned("wgs84_to_gcj02")
  /\ call.lon = Lit(135, 500, 0, 0)
  /\ call.lat = Lit(53, 5500, 0, 0)
  /\ ret # <<call.lon, call.lat>>

\* C3: for a point of the China box (edges included), wgs84_to_gcj02
\* followed by gcj02_to_wgs84 comes back within 1e-5 degrees of the point
\* in both coordinates.
C3_RoundTripWithin1e5 ==
  (Returned("gcj02_to_wgs84") /\ depth >= 1 /\ prev.fn = "wgs84_to_gcj02"
     /\ InBox(prev.lon, prev.lat))
  => /\ Within(ret[1], prev.lon, Lit(0, 0, 1000, 0))
     /\ Within(ret[2], prev.lat, Lit(0, 0, 1000, 0))

\* C4: wgs84_to_bd09 returns gcj02_to_bd09 of wgs84_to_gcj02, and
\* bd09_to_wgs84 returns gcj02_to_wgs84 of bd09_to_gcj02, for every input.
C4_Composite ==
  /\ Returned("wgs84_to_bd09") =>
       ret = ComposeClass("gcj02_to_bd09", "wgs84_to_gcj02", globals, call.lon, call.lat)
  /\ Returned("bd09_to_wgs84") =>
       ret = ComposeClass("gcj02_to_wgs84", "bd09_to_gcj02", globals, call.lon, call.lat)

C4_Witness ==
  /\ Returned("wgs84_to_bd09")
  /\ InBox(call.lon, call.lat)
  /\ ~Raised(ret)
  /\ ret # Result("gcj02_to_bd09", globals, call.lon, call.lat)

C6_NoGatingInBd09 ==
  /\ Returned("gcj02_to_bd09") =>
       LET q == Eval(gcj02_to_bd09_polar(globals, call.lon, call.lat))
       IN ret = Eval(gcj02_to_bd09_project(q[1], q[2]))
  /\ Returned("bd09_to_gcj02") =>
       LET q == Eval(bd09_to_gcj02_polar(globals, call.lon, call.lat))
       IN ret = Eval(bd09_to_gcj02_project(q[1], q[2]))
  /\ (pc = "returned" /\ call.fn \in {"gcj02_to_bd09", "bd09_to_gcj02", "wgs84_to_bd09"}
        /\ IsNum(call.lon) /\ IsNum(call.lat) /\ ~InBox(call.lon, call.lat)) =>
       ret # <<call.lon, call.lat>>
  /\ (Returned("wgs84_to_bd09") /\ ~InChina(globals, call.lon, call.lat)) =>
       ret = Result("gcj02_to_bd09", globals, call.lon, call.lat)

C6_Witness ==
  /\ Returned("wgs84_to_bd09")
  /\ IsNum(call.lon) /\ IsNum(call.lat)
  /\ ~InChina(globals, call.lon, call.lat)
  /\ ~Raised(ret)
  /\ ret # <<call.lon, call.lat>>

\* C7: each of the six conversions returns a pair, without raising, for
\* every pair of finite doubles and for nan.
C7_NeverRaises ==
  (pc = "returned"
     /\ (IsFinite(call.lon) \/ call.lon.k = "nan")
     /\ (IsFinite(call.lat) \/ call.lat.k = "nan"))
  => ~Raised(ret)

\* C9 as stated: for every finite point, gcj02_to_bd09 followed by
\* bd09_to_gcj02 comes back within 1e-6 degrees in both coordinates.
C9_BdRoundTripWithin1e6 ==
  (Returned("bd09_to_gcj02") /\ depth >= 1 /\ prev.fn = "gcj02_to_bd09"
     /\ IsNum(prev.lon) /\ IsNum(prev.lat))
  => /\ Within(ret[1], prev.lon, Lit(0, 0, 100, 0))
     /\ Within(ret[2], prev.lat, Lit(0, 0, 100, 0))

\* C9 (amended): for every point of the China bounding box, gcj02_to_bd09
\* followed by bd09_to_gcj02 comes back within 1e-5 degrees of the point in
\* both coordinates.
C9_BdRoundTripInBox ==
  (Returned("bd09_to_gcj02") /\ depth >= 1 /\ prev.fn = "gcj02_to_bd09"
     /\ InBox(prev.lon, prev.lat))
  => /\ Within(ret[1], prev.lon, Lit(0, 0, 1000, 0))
     /\ Within(ret[2], prev.lat, Lit(0, 0, 1000, 0))

C9_Witness ==
  /\ Returned("bd09_to_gcj02") /\ depth >= 1 /\ prev.fn = "gcj02_to_bd09"
  /\ InBox(prev.lon, prev.lat)
  /\ ret # <<prev.lon, prev.lat>>
  /\ ~Within(ret[2], prev.lat, Lit(0, 0, 100, 0))

\* C10: a module-level function returns what the CoordinateConverter
\* method of the same name returns on the same arguments.
C10_FlatEqualsClass ==
  (pc = "returned" /\ call.api = "flat")
  => ret = Result(call.fn, globals, call.lon, call.lat)

C10_Witness ==
  /\ pc = "returned" /\ call.api = "flat" /\ call.fn = "gcj02_to_wgs84"
  /\ InBox(call.lon, call.lat)
  /\ ret # <<call.lon, call.lat>>

\* C8: no conversion writes the module constants, and whatever the
\* interleaving of the concurrent calls, each call returns what the same
\* call returns when it runs alone.
C8_NoSharedState ==
  /\ globals = ModuleGlobals
  /\ \A t \in Threads :
       tpc[t] = "done" =>
         tret[t] = Result(tcall[t].fn, ModuleGlobals, tcall[t].lon, tcall[t].lat)

C8_Witness ==
  /\ overlap
  /\ \A t \in Threads : tpc[t] = "done" /\ ~Raised(tret[t])
  /\ tcall[1].fn = "wgs84_to_bd09"
  /\ tcall[2].fn = "gcj02_to_wgs84"
  /\ tret[1] # tret[2]

-----------------------------------------------------------------------------
(* split_pdf_by_bookmarks.py: one output PDF per top-level bookmark.       *)
(* A PyPDF2 outline is a list whose items are destinations and nested      *)
(* lists; a nested list holds the children of the destination before it.   *)

\* pages of the sample PDFs (len(pdf_reader.pages))
NumPages == 4

\* top-level items of a sample outline
MaxOutline == 3

\* a bookmark that points to a page
Destination(title, page) ==
  [isList |-> FALSE, isPage |-> TRUE, raises |-> FALSE,
   title |-> title, page |-> page, items |-> <<>>]

\* an outline item without '/Page'
NonPage(title) ==
  [isList |-> FALSE, isPage |-> FALSE, raises |-> FALSE,
   title |-> title, page |-> -1, items |-> <<>>]

\* a bookmark for which get_destination_page_number raises
Broken(title) ==
  [isList |-> FALSE, isPage |-> TRUE, raises |-> TRUE,
   title |-> title, page |-> -1, items |-> <<>>]

\* a nested list: the children of the item before it
Children(items) ==
  [isList |-> TRUE, isPage |-> FALSE, raises |-> FALSE,
   title |-> "", page |-> -1, items |-> items]

\* isinstance(outline, dict) and '/Page' in str(outline)
IsPageBookmark(o) == ~o.isList /\ o.isPage

\* the items an outline can hold at position i, after the items before
OutlineItems(before, i) ==
  {Destination("B" \o ToString(i), p) : p \in 0..(NumPages - 1)}
    \cup {NonPage("B" \o ToString(i)), Broken("B" \o ToString(i))}
    \cup IF before # <<>> /\ ~before[Len(before)].isList
         THEN {Children(<<Destination("B" \o ToString(i - 1) \o ".1", p)>>) :
                 p \in 0..(NumPages - 1)}
         ELSE {}

RECURSIVE OutlinesOf(_)
OutlinesOf(n) ==
  IF n = 0 THEN {<<>>}
  ELSE UNION {{Append(o, e) : e \in OutlineItems(o, n)} : o \in OutlinesOf(n - 1)}

\* the PDFs opened by PdfReader(pdf_path) whose outline has n items
BookmarkPdfs(n) ==
  {[outline |-> o, pages |-> NumPages] : o \in OutlinesOf(n)}

\* lines 31-48: the top-level page bookmarks whose page number is found
valid_bookmarks(outlines) ==
  LET kept == SelectSeq(outlines, LAMBDA o : IsPageBookmark(o) /\ ~o.raises)
  IN [k \in 1..Len(kept) |-> [title |-> kept[k].title, page |-> kept[k].page]]

\* a list left in the order of the outline
list_unsorted(s) == s

\* line 51: list.sort(key=lambda x: x[1]), a stable sort by page
list_sort(s) ==
  LET Rank(k) == Cardinality({j \in 1..Len(s) : s[j].page < s[k].page})
                 + Cardinality({j \in 1..k : s[j].page = s[k].page})
  IN [r \in 1..Len(s) |-> s[CHOOSE k \in 1..Len(s) : Rank(k) = r]]

\* lines 54-62: the range of each bookmark
bookmark_ranges(sorted, pages) ==
  [i \in 1..Len(sorted) |->
     [title |-> sorted[i].title,
      start_page |-> sorted[i].page,
      end_page |-> IF i < Len(sorted) THEN sorted[i + 1].page - 1 ELSE pages - 1]]

get_bookmarks_with_pages(reader) ==
  IF reader.outline = <<>> THEN <<>>
  ELSE bookmark_ranges(list_sort(valid_bookmarks(reader.outline)), reader.pages)

\* lines 79-100: every page bookmark of the range, at any depth, is appended
\* to the one list the recursion passes down
RECURSIVE process_outline(_, _, _, _)
RECURSIVE process_items(_, _, _, _, _)
process_outline(outline, parent_list, start_page, end_page) ==
  IF outline.isList
  THEN process_items(outline.items, 1, parent_list, start_page, end_page)
  ELSE IF IsPageBookmark(outline) /\ ~outline.raises
          /\ start_page <= outline.page /\ outline.page <= end_page
       THEN Append(parent_list, [title |-> outline.title,
                                 page |-> outline.page - start_page,
                                 children |-> <<>>])
       ELSE parent_list

process_items(items, k, parent_list, start_page, end_page) ==
  IF k > Len(items) THEN parent_list
  ELSE process_items(items, k + 1,
                     process_outline(items[k], parent_list, start_page, end_page),
                     start_page, end_page)

get_nested_bookmarks(reader, start_page, end_page) ==
  process_outline(Children(reader.outline), <<>>, start_page, end_page)

\* pdf_writer.add_outline_item(title, page, parent): the item is appended
\* to the writer's outline, parent 0 standing for None
add_outline_item(writer, title, page, parent) ==
  Append(writer, [title |-> title, page |-> page, parent |-> parent])

RECURSIVE add_bookmarks_to_pdf(_, _, _, _)
add_bookmarks_to_pdf(writer, bms, k, parent) ==
  IF k > Len(bms) THEN writer
  ELSE LET added == add_outline_item(writer, bms[k].title, bms[k].page, parent)
           current == Len(added)
           nested == IF bms[k].children # <<>>
                     THEN add_bookmarks_to_pdf(added, bms[k].children, 1, current)
                     ELSE added
       IN add_bookmarks_to_pdf(nested, bms, k + 1, parent)

\* lines 186-188: the pages added to the writer
added_pages(reader, start_page, end_page) ==
  LET n == IF end_page >= start_page THEN end_page - start_page + 1 ELSE 0
      all == [k \in 1..n |-> start_page + k - 1]
  IN SelectSeq(all, LAMBDA p : p < reader.pages)

\* lines 191-198: the outline of the file
file_outline(reader, bm) ==
  LET nested_bookmarks == get_nested_bookmarks(reader, bm.start_page, bm.end_page)
      copied == add_bookmarks_to_pdf(<<>>, nested_bookmarks, 1, 0)
  IN IF nested_bookmarks = <<>> THEN add_outline_item(copied, bm.title, 0, 0)
     ELSE copied

\* the file the loop body writes for bookmark bm
split_file(reader, bm) ==
  [title |-> bm.title, start_page |-> bm.start_page, end_page |-> bm.end_page,
   pages |-> added_pages(reader, bm.start_page, bm.end_page),
   outline |-> file_outline(reader, bm)]

\* line 170: split_pdf opens the PDF
InitBookmarks ==
  /\ ConvIdle /\ SubIdle /\ MdIdle
  /\ \E n \in 0..MaxOutline : pdf_reader \in BookmarkPdfs(n)
  /\ split_level = 0
  /\ bookmarks = <<>>
  /\ bookmarks_info = <<>>
  /\ chapters = <<>>
  /\ output_dir = <<>>
  /\ loop_i = 0
  /\ loop_j = 0
  /\ ppc = "opened"

\* lines 173-176: the ranges are computed; without bookmarks split_pdf returns
GetBookmarks ==
  /\ ppc = "opened"
  /\ bookmarks' = get_bookmarks_with_pages(pdf_reader)
  /\ ppc' = IF bookmarks' = <<>> THEN "done" ELSE "loop"
  /\ loop_i' = 1
  /\ UNCHANGED <<pdf_reader, split_level, bookmarks_info, chapters, output_dir, loop_j>>
  /\ UNCHANGED <<convvars, subvars, mdvars>>

\* lines 181-214: one pass of the loop writes one file.  For a writer that
\* holds no page, add_outline_item(title, 0) raises in the PyPDF2 releases
\* that look the page up, and the except clause skips the file.
WriteFile ==
  /\ ppc = "loop"
  /\ loop_i <= Len(bookmarks)
  /\ LET f == split_file(pdf_reader, bookmarks[loop_i])
     IN \E raised \in IF f.pages = <<>> THEN BOOLEAN ELSE {FALSE} :
          output_dir' = IF raised THEN output_dir ELSE Append(output_dir, f)
  /\ loop_i' = loop_i + 1
  /\ UNCHANGED <<pdf_reader, split_level, bookmarks, bookmarks_info, chapters, loop_j, ppc>>
  /\ UNCHANGED <<convvars, subvars, mdvars>>

\* line 220: the loop is over
FinishSplit ==
  /\ ppc = "loop"
  /\ loop_i > Len(bookmarks)
  /\ ppc' = "done"
  /\ UNCHANGED <<pdf_reader, split_level, bookmarks, bookmarks_info, chapters,
                 output_dir, loop_i, loop_j>>
  /\ UNCHANGED <<convvars, subvars, mdvars>>

NextBookmarks ==
  \/ GetBookmarks
  \/ WriteFile
  \/ FinishSplit

SpecBookmarks == InitBookmarks /\ [][NextBookmarks]_vars

-----------------------------------------------------------------------------
(* Properties of split_pdf_by_bookmarks.py                                 *)

\* the top-level page bookmarks of the outline whose page number is found
TopLevelValid(outline) ==
  {[title |-> outline[i].title, page |-> outline[i].page] :
     i \in {k \in 1..Len(outline) : IsPageBookmark(outline[k]) /\ ~outline[k].raises}}

\* every page bookmark of the outline with the title of its parent bookmark
\* ("" at the top level)
SourceBookmarks(outline) ==
  {[title |-> outline[i].title, page |-> outline[i].page, parent |-> ""] :
     i \in {k \in 1..Len(outline) : IsPageBookmark(outline[k]) /\ ~outline[k].raises}}
  \cup UNION {
    {[title |-> outline[i].items[c].title, page |-> outline[i].items[c].page,
      parent |-> IF i > 1 /\ IsPageBookmark(outline[i - 1]) /\ ~outline[i - 1].raises
                 THEN outline[i - 1].title ELSE ""] :
       c \in 1..Len(outline[i].items)} :
    i \in {k \in 1..Len(outline) : outline[k].isList}}

InRange(b, f) == f.start_page <= b.page /\ b.page <= f.end_page

\* C11: get_bookmarks_with_pages returns exactly the valid top-level page
\* bookmarks, ordered by start page; each end_page but the last is the next
\* start_page minus 1 and the last end_page is the last page of the PDF; when
\* the list is empty split_pdf writes no file.
C11_RangesOfTopLevelBookmarks ==
  ppc \in {"loop", "done"} /\ split_level = 0 =>
    /\ Len(bookmarks) = Cardinality(TopLevelValid(pdf_reader.outline))
    /\ \A i \in 1..Len(bookmarks) :
         [title |-> bookmarks[i].title, page |-> bookmarks[i].start_page]
           \in TopLevelValid(pdf_reader.outline)
    /\ \A i, j \in 1..Len(bookmarks) : i # j => bookmarks[i].title # bookmarks[j].title
    /\ \A i \in 1..(Len(bookmarks) - 1) :
         /\ bookmarks[i].start_page <= bookmarks[i + 1].start_page
         /\ bookmarks[i].end_page = bookmarks[i + 1].start_page - 1
    /\ bookmarks # <<>> => bookmarks[Len(bookmarks)].end_page = pdf_reader.pages - 1
    /\ bookmarks = <<>> => output_dir = <<>>

\* split_pdf has finished on an outline whose bookmarks were out of page
\* order, with a skipped item, and has written a file
C11_Witness ==
  /\ ppc = "done" /\ split_level = 0
  /\ Len(bookmarks) >= 2
  /\ Len(pdf_reader.outline) > Len(bookmarks)
  /\ bookmarks[1].title # "B1"
  /\ bookmarks[1].start_page < bookmarks[2].start_page
  /\ output_dir # <<>>

\* C12: in every file written, each source bookmark of the file's page range
\* is present with its page rebased, and a bookmark whose parent is in the
\* range too is a child of that parent in the file's outline.
C12_KeepsNestedStructure ==
  \A k \in 1..Len(output_dir) :
    split_level = 0 =>
      \A b \in SourceBookmarks(pdf_reader.outline) :
        InRange(b, output_dir[k]) =>
          /\ \E n \in 1..Len(output_dir[k].outline) :
               /\ output_dir[k].outline[n].title = b.title
               /\ output_dir[k].outline[n].page = b.page - output_dir[k].start_page
          /\ \A a \in SourceBookmarks(pdf_reader.outline) :
               a.title = b.parent /\ InRange(a, output_dir[k]) =>
                 \E n, m \in 1..Len(output_dir[k].outline) :
                   /\ output_dir[k].outline[n].title = b.title
                   /\ output_dir[k].outline[m].title = a.title
                   /\ output_dir[k].outline[n].parent = m

\* C19: the ranges are non-empty, inside the PDF, pairwise disjoint and cover
\* every page from the first bookmark to the last page, and every file
\* written holds at least one page.
C19_NonEmptyPartition ==
  ppc \in {"loop", "done"} /\ split_level = 0 =>
    /\ \A i \in 1..Len(bookmarks) :
         /\ 0 <= bookmarks[i].start_page
         /\ bookmarks[i].start_page <= bookmarks[i].end_page
         /\ bookmarks[i].end_page <= pdf_reader.pages - 1
    /\ \A i, j \in 1..Len(bookmarks) :
         i # j => \/ bookmarks[i].end_page < bookmarks[j].start_page
                  \/ bookmarks[j].end_page < bookmarks[i].start_page
    /\ bookmarks # <<>> =>
         \A p \in bookmarks[1].start_page..(pdf_reader.pages - 1) :
           \E i \in 1..Len(bookmarks) :
             bookmarks[i].start_page <= p /\ p <= bookmarks[i].end_page
    /\ \A k \in 1..Len(output_dir) : output_dir[k].pages # <<>>

-----------------------------------------------------------------------------
(* split_pdf_by_chapters.py: one output PDF per chapter or per section.    *)
(* Titles are sequences of characters.                                     *)

\* top-level items of a sample outline of the chapter splitter
MaxChapterOutline == 3

Digits == {"0", "1", "2", "3", "4", "5", "6", "7", "8", "9"}

\* str.isdigit() of one character
IsDigit(c) == c \in Digits

\* str.lower() of one character of the sample titles
LowerChar(c) ==
  CASE c = "C" -> "c"
    [] c = "S" -> "s"
    [] c = "P" -> "p"
    [] c = "I" -> "i"
    [] c = "F" -> "f"
    [] c = "M" -> "m"
    [] OTHER -> c

\* str.lower()
Lower(s) == [k \in 1..Len(s) |-> LowerChar(s[k])]

\* sub in s
Contains(s, sub) ==
  \E k \in 1..(Len(s) - Len(sub) + 1) : SubSeq(s, k, k + Len(sub) - 1) = sub

\* characters that str.strip() removes
Whitespace == {" ", "\t", "\n"}

RECURSIVE LStrip(_)
LStrip(s) == IF s # <<>> /\ Head(s) \in Whitespace THEN LStrip(Tail(s)) ELSE s

RECURSIVE RStrip(_)
RStrip(s) ==
  IF s # <<>> /\ s[Len(s)] \in Whitespace THEN RStrip(SubSeq(s, 1, Len(s) - 1)) ELSE s

\* str.strip()
Strip(s) == LStrip(RStrip(s))

\* len(s.split(sep)) for a one-character separator
SplitCount(s, sep) == Cardinality({k \in 1..Len(s) : s[k] = sep}) + 1

\* the one-character strings "U+7AE0", "U+8282" and "U+5C0F" stand for the
\* Chinese characters of lines 31, 38 and 40
chapter_indicators ==
  {<<"U+7AE0">>, <<"c", "h", "a", "p", "t", "e", "r">>, <<"p", "a", "r", "t">>}

section_indicators ==
  {<<"U+8282">>, <<"s", "e", "c", "t", "i", "o", "n">>, <<"U+5C0F", "U+8282">>}

\* lines 51-54: the level of a title that starts with a digit, from the
\* number of parts title.split('.') gives
level_of_parts(n) == IF n = 2 THEN 1 ELSE IF n >= 3 THEN 2 ELSE 0

get_bookmark_level(bookmark) ==
  IF ~IsPageBookmark(bookmark) THEN 0
  ELSE LET title == bookmark.title
           title_lower == Lower(title)
       IN IF \E indicator \in chapter_indicators : Contains(title_lower, indicator)
          THEN 1
          ELSE IF \E indicator \in section_indicators : Contains(title_lower, indicator)
          THEN 2
          ELSE IF Strip(title) # <<>> /\ IsDigit(title[1])
          THEN level_of_parts(SplitCount(title, "."))
          ELSE 0

\* the sample titles
ChapterTitle == <<"C", "h", "a", "p", "t", "e", "r", " ", "1">>

SectionTitle == <<"S", "e", "c", "t", "i", "o", "n", " ", "1">>

NumberDotTitle == <<"1", ".", " ", "M", "a", "p">>

NumberDotNumberTitle == <<"1", ".", "1", " ", "M", "a", "p">>

PlainTitle == <<"M", "a", "p">>

SampleTitles ==
  {ChapterTitle, SectionTitle, NumberDotTitle, NumberDotNumberTitle, PlainTitle}

\* the items of the sample outlines
ChapterItems ==
  {Destination(t, p) : t \in SampleTitles, p \in 0..(NumPages - 1)}
    \cup {NonPage(ChapterTitle), Broken(ChapterTitle)}

\* the PDFs opened by PdfReader(pdf_path) whose outline has n items
ChapterPdfs(n) ==
  {[outline |-> o, pages |-> NumPages] : o \in [1..n -> ChapterItems]}

\* lines 75-90: the bookmarks with a recognised level (index counts from 1
\* here, from 0 in the code)
collect_bookmarks_info(outlines) ==
  LET Kept(i) == get_bookmark_level(outlines[i]) > 0 /\ ~outlines[i].raises
      idx == SelectSeq([i \in 1..Len(outlines) |-> i], Kept)
  IN [k \in 1..Len(idx) |->
        [title |-> outlines[idx[k]].title, page |-> outlines[idx[k]].page,
         level |-> get_bookmark_level(outlines[idx[k]]), index |-> idx[k]]]

\* lines 99-108: a chapter bookmark closes the chapter before it and opens
\* a chapter that runs to the end of the document
open_chapter(chaps, bookmark, pages) ==
  LET closed == IF chaps # <<>>
                THEN [chaps EXCEPT ![Len(chaps)].end_page = bookmark.page - 1]
                ELSE chaps
  IN Append(closed, [title |-> bookmark.title, start_page |-> bookmark.page,
                     end_page |-> pages - 1, sections |-> <<>>])

\* lines 110-122: a section bookmark closes the section before it in the
\* current chapter and opens a section that runs to the end of the document
open_section(chaps, bookmark, pages) ==
  LET current_chapter == chaps[Len(chaps)]
      secs == current_chapter.sections
      closed == IF secs # <<>>
                THEN [secs EXCEPT ![Len(secs)].end_page = bookmark.page - 1]
                ELSE secs
  IN [chaps EXCEPT ![Len(chaps)].sections =
        Append(closed, [title |-> bookmark.title, start_page |-> bookmark.page,
                        end_page |-> pages - 1])]

\* lines 96-122
RECURSIVE build_chapters(_, _, _, _)
build_chapters(info, k, chaps, pages) ==
  IF k > Len(info) THEN chaps
  ELSE build_chapters(info, k + 1,
         IF info[k].level = 1 THEN open_chapter(chaps, info[k], pages)
         ELSE IF info[k].level = 2 /\ chaps # <<>> THEN open_section(chaps, info[k], pages)
         ELSE chaps,
         pages)

\* lines 125-127: the last section of the last chapter ends with its chapter
close_last_section(chaps) ==
  IF chaps # <<>> /\ chaps[Len(chaps)].sections # <<>>
  THEN LET last == chaps[Len(chaps)]
       IN [chaps EXCEPT ![Len(chaps)].sections[Len(last.sections)].end_page = last.end_page]
  ELSE chaps

get_bookmarks_hierarchy(reader) ==
  IF reader.outline = <<>> THEN <<>>
  ELSE close_last_section(
         build_chapters(collect_bookmarks_info(reader.outline), 1, <<>>, reader.pages))

\* the file written for a chapter or a section
range_file(reader, part) ==
  [title |-> part.title, start_page |-> part.start_page, end_page |-> part.end_page,
   pages |-> added_pages(reader, part.start_page, part.end_page),
   outline |-> <<>>]

\* line 174: split_pdf opens the PDF; split_level is the caller's choice
InitChapters ==
  /\ ConvIdle /\ SubIdle /\ MdIdle
  /\ \E n \in 0..MaxChapterOutline : pdf_reader \in ChapterPdfs(n)
  /\ split_level \in {1, 2}
  /\ bookmarks = <<>>
  /\ bookmarks_info = <<>>
  /\ chapters = <<>>
  /\ output_dir = <<>>
  /\ loop_i = 0
  /\ loop_j = 0
  /\ ppc = "opened"

\* lines 177-181: the hierarchy is computed; without chapters split_pdf returns
GetHierarchy ==
  /\ ppc = "opened"
  /\ bookmarks_info' = IF pdf_reader.outline = <<>> THEN <<>>
                       ELSE collect_bookmarks_info(pdf_reader.outline)
  /\ chapters' = get_bookmarks_hierarchy(pdf_reader)
  /\ ppc' = IF chapters' = <<>> THEN "done" ELSE "loop"
  /\ loop_i' = 1
  /\ loop_j' = 1
  /\ UNCHANGED <<pdf_reader, split_level, bookmarks, output_dir>>
  /\ UNCHANGED <<convvars, subvars, mdvars>>

\* lines 187-205: split by chapter, one pass of the loop
WriteChapter ==
  /\ ppc = "loop"
  /\ split_level = 1
  /\ loop_i <= Len(chapters)
  /\ output_dir' = Append(output_dir, range_file(pdf_reader, chapters[loop_i]))
  /\ loop_i' = loop_i + 1
  /\ UNCHANGED <<pdf_reader, split_level, bookmarks, bookmarks_info, chapters, loop_j, ppc>>
  /\ UNCHANGED <<convvars, subvars, mdvars>>

\* lines 215-234: split by section, a chapter without sections is kept whole
WriteWholeChapter ==
  /\ ppc = "loop"
  /\ split_level = 2
  /\ loop_i <= Len(chapters)
  /\ chapters[loop_i].sections = <<>>
  /\ output_dir' = Append(output_dir, range_file(pdf_reader, chapters[loop_i]))
  /\ loop_i' = loop_i + 1
  /\ UNCHANGED <<pdf_reader, split_level, bookmarks, bookmarks_info, chapters, loop_j, ppc>>
  /\ UNCHANGED <<convvars, subvars, mdvars>>

\* lines 240-262: split by section, one pass of the inner loop
WriteSection ==
  /\ ppc = "loop"
  /\ split_level = 2
  /\ loop_i <= Len(chapters)
  /\ chapters[loop_i].sections # <<>>
  /\ output_dir' = Append(output_dir,
                          range_file(pdf_reader, chapters[loop_i].sections[loop_j]))
  /\ IF loop_j < Len(chapters[loop_i].sections)
     THEN loop_j' = loop_j + 1 /\ loop_i' = loop_i
     ELSE loop_j' = 1 /\ loop_i' = loop_i + 1
  /\ UNCHANGED <<pdf_reader, split_level, bookmarks, bookmarks_info, chapters, ppc>>
  /\ UNCHANGED <<convvars, subvars, mdvars>>

\* line 268: the loops are over
FinishChapters ==
  /\ ppc = "loop"
  /\ loop_i > Len(chapters)
  /\ ppc' = "done"
  /\ UNCHANGED <<pdf_reader, split_level, bookmarks, bookmarks_info, chapters,
                 output_dir, loop_i, loop_j>>
  /\ UNCHANGED <<convvars, subvars, mdvars>>

NextChapters ==
  \/ GetHierarchy
  \/ WriteChapter
  \/ WriteWholeChapter
  \/ WriteSection
  \/ FinishChapters

SpecChapters == InitChapters /\ [][NextChapters]_vars

-----------------------------------------------------------------------------
(* Properties of split_pdf_by_chapters.py                                  *)

\* the level get_bookmarks_hierarchy recorded for the outline item at i
RecordedLevel(i) ==
  IF \E k \in 1..Len(bookmarks_info) : bookmarks_info[k].index = i
  THEN bookmarks_info[CHOOSE k \in 1..Len(bookmarks_info) : bookmarks_info[k].index = i].level
  ELSE 0

HasKeyword(title, indicators) ==
  \E indicator \in indicators : Contains(Lower(title), indicator)

\* "1. xxx": one number followed by a dot
OneNumberForm(title) ==
  /\ Len(title) >= 2 /\ IsDigit(title[1]) /\ title[2] = "."
  /\ (Len(title) >= 3 => ~IsDigit(title[3]))

\* "1.1 xxx": two numbers separated by a dot
TwoNumberForm(title) ==
  /\ Len(title) >= 3 /\ IsDigit(title[1]) /\ title[2] = "." /\ IsDigit(title[3])
  /\ (Len(title) >= 4 => ~IsDigit(title[4]) /\ title[4] # ".")

\* C13: a non-page bookmark is level 0; a page bookmark with a chapter
\* keyword is level 1, with only a section keyword level 2; without keyword
\* "1. xxx" is level 1 and "1.1 xxx" is level 2.
C13_LevelByKeywordAndNumber ==
  ppc \in {"loop", "done"} /\ split_level \in {1, 2} =>
    \A i \in 1..Len(pdf_reader.outline) :
      LET o == pdf_reader.outline[i]
      IN ~o.raises =>
           /\ ~IsPageBookmark(o) => RecordedLevel(i) = 0
           /\ IsPageBookmark(o) /\ HasKeyword(o.title, chapter_indicators)
                => RecordedLevel(i) = 1
           /\ IsPageBookmark(o) /\ ~HasKeyword(o.title, chapter_indicators)
                /\ HasKeyword(o.title, section_indicators)
                => RecordedLevel(i) = 2
           /\ IsPageBookmark(o) /\ ~HasKeyword(o.title, chapter_indicators)
                /\ ~HasKeyword(o.title, section_indicators)
                => /\ OneNumberForm(o.title) => RecordedLevel(i) = 1
                   /\ TwoNumberForm(o.title) => RecordedLevel(i) = 2

\* the bookmarks are listed in non-decreasing page order
PageOrdered ==
  \A k \in 1..(Len(bookmarks_info) - 1) :
    bookmarks_info[k].page <= bookmarks_info[k + 1].page

\* C18: with the bookmarks in page order, every section's range lies inside
\* the range of its chapter.
C18_SectionInsideChapter ==
  ppc \in {"loop", "done"} /\ split_level \in {1, 2} /\ PageOrdered =>
    \A c \in 1..Len(chapters) :
      \A s \in 1..Len(chapters[c].sections) :
        /\ chapters[c].start_page <= chapters[c].sections[s].start_page
        /\ chapters[c].sections[s].start_page <= chapters[c].sections[s].end_page
        /\ chapters[c].sections[s].end_page <= chapters[c].end_page

\* C20: after a split by section, every page of every chapter is in at
\* least one of the files written.
C20_SectionSplitKeepsPages ==
  ppc = "done" /\ split_level = 2 =>
    \A c \in 1..Len(chapters) :
      \A p \in chapters[c].start_page..chapters[c].end_page :
        \E k \in 1..Len(output_dir) :
          \E n \in 1..Len(output_dir[k].pages) : output_dir[k].pages[n] = p

-----------------------------------------------------------------------------
(* vvt_to_md.py and srt_to_md.py: the text of a subtitle file.  A file is  *)
(* its content, a sequence of characters; a line is a sequence of          *)
(* characters too.                                                         *)

\* cues of a sample subtitle file
MaxCues == 2

\* sep.join(parts)
RECURSIVE Join(_, _)
Join(parts, sep) ==
  IF parts = <<>> THEN <<>>
  ELSE IF Len(parts) = 1 THEN parts[1]
  ELSE parts[1] \o sep \o Join(Tail(parts), sep)

\* content.split('\n')
SplitLines(s) ==
  LET idx == SelectSeq([i \in 1..Len(s) |-> i], LAMBDA i : s[i] = "\n")
      n == Len(idx)
  IN [k \in 1..(n + 1) |->
        SubSeq(s, IF k = 1 THEN 1 ELSE idx[k - 1] + 1,
                  IF k = n + 1 THEN Len(s) ELSE idx[k] - 1)]

\* s.startswith(prefix)
StartsWith(s, prefix) ==
  Len(s) >= Len(prefix) /\ SubSeq(s, 1, Len(prefix)) = prefix

\* '-->'
Arrow == <<"-", "-", ">">>

\* 'WEBVTT'
WEBVTT == <<"W", "E", "B", "V", "T", "T">>

\* str.isdigit(): non-empty and every character a digit
AllDigits(s) == s # <<>> /\ \A k \in 1..Len(s) : IsDigit(s[k])

\* vvt_to_md.py lines 35-36: the blank lines and the lines with a colon
\* after the header are skipped
RECURSIVE vtt_skip_header(_, _)
vtt_skip_header(lines, start_index) ==
  IF start_index <= Len(lines)
     /\ (Strip(lines[start_index]) = <<>> \/ Contains(lines[start_index], <<":">>))
  THEN vtt_skip_header(lines, start_index + 1)
  ELSE start_index

\* vvt_to_md.py lines 28-37 (positions count from 1 here)
vtt_start_index(lines) ==
  LET marks == {i \in 1..Len(lines) :
                  Strip(lines[i]) = WEBVTT \/ StartsWith(lines[i], WEBVTT \o <<" ">>)}
  IN IF marks = {} THEN 1
     ELSE vtt_skip_header(lines, (CHOOSE i \in marks : \A j \in marks : i <= j) + 1)

\* vvt_to_md.py lines 48-51: the lines up to a blank line or a timing line
RECURSIVE vtt_text_chunk(_, _, _)
vtt_text_chunk(lines, i, text_chunk) ==
  IF i <= Len(lines) /\ Strip(lines[i]) # <<>> /\ ~Contains(lines[i], Arrow)
  THEN vtt_text_chunk(lines, i + 1, Append(text_chunk, Strip(lines[i])))
  ELSE [i |-> i, text_chunk |-> text_chunk]

\* vvt_to_md.py lines 43-57
RECURSIVE vtt_loop(_, _, _)
vtt_loop(lines, i, processed) ==
  IF i > Len(lines) THEN processed
  ELSE IF Contains(lines[i], Arrow)
  THEN LET c == vtt_text_chunk(lines, i + 1, <<>>)
       IN vtt_loop(lines, c.i,
                   IF c.text_chunk # <<>>
                   THEN Append(processed, Join(c.text_chunk, <<" ">>))
                   ELSE processed)
  ELSE vtt_loop(lines, i + 1, processed)

process_vtt_file(text) ==
  LET lines == SplitLines(text)
  IN Join(vtt_loop(lines, vtt_start_index(lines), <<>>), <<" ">>)

\* only the first text line of a cue is taken
srt_text_chunk_one_line(lines, i, text_chunk) ==
  IF i <= Len(lines) /\ Strip(lines[i]) # <<>>
  THEN [i |-> i + 1, text_chunk |-> <<Strip(lines[i])>>]
  ELSE [i |-> i, text_chunk |-> text_chunk]

\* srt_to_md.py lines 40-43: the lines up to a blank line
RECURSIVE srt_text_chunk(_, _, _)
srt_text_chunk(lines, i, text_chunk) ==
  IF i <= Len(lines) /\ Strip(lines[i]) # <<>>
  THEN srt_text_chunk(lines, i + 1, Append(text_chunk, Strip(lines[i])))
  ELSE [i |-> i, text_chunk |-> text_chunk]

\* srt_to_md.py lines 32-48
RECURSIVE srt_loop(_, _, _)
srt_loop(lines, i, processed) ==
  IF i > Len(lines) THEN processed
  ELSE IF AllDigits(Strip(lines[i]))
  THEN IF i + 1 <= Len(lines) /\ Contains(lines[i + 1], Arrow)
       THEN LET c == srt_text_chunk(lines, i + 2, <<>>)
            IN srt_loop(lines, c.i,
                        IF c.text_chunk # <<>>
                        THEN Append(processed, Join(c.text_chunk, <<" ">>))
                        ELSE processed)
       ELSE srt_loop(lines, i + 1, processed)
  ELSE srt_loop(lines, i + 1, processed)

process_srt_file(text) ==
  Join(srt_loop(SplitLines(text), 1, <<>>), <<" ">>)

\* a timing line, "0:01 --> 0:02"
TimingLine ==
  <<"0", ":", "0", "1", " ", "-", "-", ">", " ", "0", ":", "0", "2">>

\* the text lines of the sample cues: plain, padded with blanks, all digits
TextLines == {<<"h", "i">>, <<" ", "o", "k", " ">>, <<"4", "2">>}

\* a cue is its text lines, one or two
Cues ==
  {<<a>> : a \in TextLines}
    \cup {<<<<"h", "i">>, <<"4", "2">>>>,
          <<<<"4", "2">>, <<" ", "o", "k", " ">>>>,
          <<<<" ", "o", "k", " ">>, <<"h", "i">>>>}

CueLists == UNION {[1..n -> Cues] : n \in 0..MaxCues}

\* the lines of cue number k of an SRT file, the closing blank line included
SrtCueLines(cue, k) ==
  <<IF k = 1 THEN <<"1">> ELSE IF k = 2 THEN <<"2">> ELSE <<"1", "0">>, TimingLine>>
    \o cue \o <<<<>>>>

\* the lines of a cue of a VTT file, the closing blank line included
VttCueLines(cue) == <<TimingLine>> \o cue \o <<<<>>>>

RECURSIVE SrtLines(_, _)
SrtLines(cues, k) ==
  IF k > Len(cues) THEN <<>> ELSE SrtCueLines(cues[k], k) \o SrtLines(cues, k + 1)

RECURSIVE VttLines(_, _)
VttLines(cues, k) ==
  IF k > Len(cues) THEN <<>> ELSE VttCueLines(cues[k]) \o VttLines(cues, k + 1)

\* file.read() of the well-formed SRT file with these cues; every line
\* ends with a newline
SrtFile(cues) == Join(SrtLines(cues, 1) \o <<<<>>>>, <<"\n">>)

\* file.read() of the well-formed VTT file with these cues
VttFile(cues) == Join(<<WEBVTT, <<>>>> \o VttLines(cues, 1) \o <<<<>>>>, <<"\n">>)

\* the file has been read by process_vtt_file or by process_srt_file
InitSubtitles ==
  /\ ConvIdle /\ PdfIdle /\ MdIdle
  /\ processed_text = <<>>
  /\ \/ spc = "vtt_read" /\ content \in {VttFile(cues) : cues \in CueLists}
     \/ spc = "srt_read" /\ content \in {SrtFile(cues) : cues \in CueLists}

\* vvt_to_md.py lines 27-59
ProcessVtt ==
  /\ spc = "vtt_read"
  /\ processed_text' = process_vtt_file(content)
  /\ spc' = "vtt_done"
  /\ UNCHANGED content
  /\ UNCHANGED <<convvars, pdfvars, mdvars>>

\* srt_to_md.py lines 28-50
ProcessSrt ==
  /\ spc = "srt_read"
  /\ processed_text' = process_srt_file(content)
  /\ spc' = "srt_done"
  /\ UNCHANGED content
  /\ UNCHANGED <<convvars, pdfvars, mdvars>>

NextSubtitles ==
  \/ ProcessVtt
  \/ ProcessSrt

SpecSubtitles == InitSubtitles /\ [][NextSubtitles]_vars

-----------------------------------------------------------------------------
(* Properties of the subtitle converters                                   *)

\* the text lines of all cues, in file order, without surrounding blanks
RECURSIVE AllText(_, _)
AllText(cues, k) ==
  IF k > Len(cues) THEN <<>>
  ELSE [n \in 1..Len(cues[k]) |-> Strip(cues[k][n])] \o AllText(cues, k + 1)

\* C14: for a well-formed VTT file the result is the text lines of every
\* cue (surrounding blanks removed), in file order, joined by single spaces.
C14_VttAllText ==
  spc = "vtt_done" =>
    \A cues \in CueLists :
      content = VttFile(cues) => processed_text = Join(AllText(cues, 1), <<" ">>)

\* C15: for a well-formed SRT file the result is the text lines of every
\* cue (surrounding blanks removed), in file order, joined by single spaces:
\* no index line and no timing line is in it.
C15_SrtAllText ==
  spc = "srt_done" =>
    \A cues \in CueLists :
      content = SrtFile(cues) => processed_text = Join(AllText(cues, 1), <<" ">>)

\* an SRT file of two cues, one of two text lines, one with an all-digit
\* and a padded text line, has been processed
C15_Witness ==
  /\ spc = "srt_done"
  /\ content = SrtFile(<<<<<<"h", "i">>, <<"4", "2">>>>, <<<<" ", "o", "k", " ">>>>>>)
  /\ processed_text = <<"h", "i", " ", "4", "2", " ", "o", "k">>

-----------------------------------------------------------------------------
(* merge_md.py: the Markdown files of a directory merged into one file.    *)
(* File names and file contents are sequences of characters.               *)

\* files in a sample directory
MaxFiles == 3

\* the characters of the sample names in the order of their code points
CodeOrder ==
  <<".", "/", "0", "1", "2", "3", "4", "5", "6", "7", "8", "9",
    "F", "d", "e", "f", "g", "i", "l", "m", "r">>

\* ord(c)
CodePoint(c) == CHOOSE k \in 1..Len(CodeOrder) : CodeOrder[k] = c

\* int(c) of one digit
DigitValue(c) == CodePoint(c) - CodePoint("0")

\* int(text) of a run of digits
RECURSIVE IntOf(_)
IntOf(text) ==
  IF text = <<>> THEN 0
  ELSE 10 * IntOf(SubSeq(text, 1, Len(text) - 1)) + DigitValue(text[Len(text)])

\* re.split(r'(\d+)', s): the maximal runs of digits and the text between
\* them, text first and last (empty when s starts or ends with a digit)
re_split_digits(s) ==
  LET starts == SelectSeq([k \in 1..Len(s) |-> k],
                          LAMBDA k : k = 1 \/ IsDigit(s[k]) # IsDigit(s[k - 1]))
      runs == [j \in 1..Len(starts) |->
                 SubSeq(s, starts[j],
                        IF j < Len(starts) THEN starts[j + 1] - 1 ELSE Len(s))]
      lead == IF s # <<>> /\ IsDigit(s[1]) THEN <<<<>>>> ELSE <<>>
      trail == IF s # <<>> /\ IsDigit(s[Len(s)]) THEN <<<<>>>> ELSE <<>>
  IN IF s = <<>> THEN <<<<>>>> ELSE lead \o runs \o trail

\* every run is compared as text
key_element_as_text(text) ==
  [num |-> FALSE, n |-> 0, s |-> Lower(text)]

\* line 22: int(text) if text.isdigit() else text.lower()
key_element(text) ==
  IF AllDigits(text) THEN [num |-> TRUE, n |-> IntOf(text), s |-> <<>>]
  ELSE [num |-> FALSE, n |-> 0, s |-> Lower(text)]

natural_sort_key(s) ==
  LET parts == re_split_digits(s)
  IN [k \in 1..Len(parts) |-> key_element(parts[k])]

\* str < str: by code point, a proper prefix first
StrLess(a, b) ==
  \E k \in 1..(Len(b)) :
    /\ k <= Len(a) + 1
    /\ SubSeq(a, 1, k - 1) = SubSeq(b, 1, k - 1)
    /\ \/ k = Len(a) + 1
       \/ k <= Len(a) /\ CodePoint(a[k]) < CodePoint(b[k])

\* the order of two elements of a key: int < int or str < str
ElementLess(x, y) ==
  IF x.num /\ y.num THEN x.n < y.n ELSE StrLess(x.s, y.s)

\* list < list: the first differing element decides, a proper prefix first
KeyLess(a, b) ==
  \E k \in 1..Len(b) :
    /\ k <= Len(a) + 1
    /\ \A j \in 1..(k - 1) : a[j] = b[j]
    /\ \/ k = Len(a) + 1
       \/ k <= Len(a) /\ ElementLess(a[k], b[k])

\* the name of the directory given as input_dir
InputDirName == <<"d">>

\* str(x) of a file of the directory
PathStr(name) == InputDirName \o <<"/">> \o name

\* line 78: md_files.sort(key=lambda x: natural_sort_key(str(x))), stable
sort_by_natural_key(files) ==
  LET keys == [k \in 1..Len(files) |-> natural_sort_key(PathStr(files[k]))]
      rank == [k \in 1..Len(files) |->
                 Cardinality({j \in 1..Len(files) : KeyLess(keys[j], keys[k])})
                 + Cardinality({j \in 1..k : keys[j] = keys[k]})]
  IN [r \in 1..Len(files) |-> files[CHOOSE k \in 1..Len(files) : rank[k] = r]]

\* the default arguments of merge_markdown_files
output_file == <<"m", "e", "r", "g", "e", "d", ".", "m", "d">>

add_separator == TRUE

add_filename_header == TRUE

recursive == FALSE

\* md_file.stem: the name without '.md'
Stem(name) == SubSeq(name, 1, Len(name) - 3)

\* line 113
Header(name) == <<"#", "#", " ">> \o Stem(name) \o <<"\n", "\n">>

\* line 121
SeparatorPiece == <<"\n", "\n", "-", "-", "-", "\n", "\n">>

\* line 123
BlankPiece == <<"\n", "\n">>

\* the names and the contents of the sample files
FileNames ==
  {<<"f", "i", "l", "e", "1", ".", "m", "d">>,
   <<"f", "i", "l", "e", "2", ".", "m", "d">>,
   <<"f", "i", "l", "e", "1", "0", ".", "m", "d">>,
   <<"F", "i", "l", "e", "3", ".", "m", "d">>,
   output_file}

FileContents == {<<" ", "x", "\n">>, <<" ", "\n">>}

\* the directories with at most MaxFiles Markdown files
Directories ==
  UNION {[names -> FileContents] :
           names \in {ns \in SUBSET FileNames : Cardinality(ns) <= MaxFiles}}

\* the orders in which glob can list the files
RECURSIVE GlobOrders(_)
GlobOrders(names) ==
  IF names = {} THEN {<<>>}
  ELSE UNION {{<<first>> \o rest : rest \in GlobOrders(names \ {first})} : first \in names}

\* lines 65-75: the directory has been listed
InitMerge ==
  /\ ConvIdle /\ PdfIdle /\ SubIdle
  /\ input_dir \in Directories
  /\ md_files \in GlobOrders(DOMAIN input_dir)
  /\ merged_content = <<>>
  /\ merge_i = 0
  /\ output = <<>>
  /\ mpc = "listed"

\* line 78
SortFiles ==
  /\ mpc = "listed"
  /\ md_files' = sort_by_natural_key(md_files)
  /\ mpc' = "sorted"
  /\ UNCHANGED <<input_dir, merged_content, merge_i, output>>
  /\ UNCHANGED <<convvars, pdfvars, subvars>>

\* lines 81-86: the output file is taken out; without files the function returns
FilterOutput ==
  /\ mpc = "sorted"
  /\ md_files' = SelectSeq(md_files, LAMBDA f : f # output_file)
  /\ mpc' = IF md_files' = <<>> THEN "returned" ELSE "loop"
  /\ merge_i' = 1
  /\ UNCHANGED <<input_dir, merged_content, output>>
  /\ UNCHANGED <<convvars, pdfvars, subvars>>

\* lines 94-123: one pass of the loop
MergeFile ==
  /\ mpc = "loop"
  /\ merge_i <= Len(md_files)
  /\ LET text == input_dir[md_files[merge_i]]
     IN merged_content' =
          IF Strip(text) = <<>> THEN merged_content
          ELSE merged_content
                 \o (IF add_filename_header THEN <<Header(md_files[merge_i])>> ELSE <<>>)
                 \o <<Strip(text)>>
                 \o <<IF add_separator /\ merge_i < Len(md_files)
                      THEN SeparatorPiece ELSE BlankPiece>>
  /\ merge_i' = merge_i + 1
  /\ UNCHANGED <<input_dir, md_files, output, mpc>>
  /\ UNCHANGED <<convvars, pdfvars, subvars>>

\* lines 126-128
WriteOutput ==
  /\ mpc = "loop"
  /\ merge_i > Len(md_files)
  /\ output' = Join(merged_content, <<"\n">>)
  /\ mpc' = "written"
  /\ UNCHANGED <<input_dir, md_files, merged_content, merge_i>>
  /\ UNCHANGED <<convvars, pdfvars, subvars>>

NextMerge ==
  \/ SortFiles
  \/ FilterOutput
  \/ MergeFile
  \/ WriteOutput

SpecMerge == InitMerge /\ [][NextMerge]_vars

-----------------------------------------------------------------------------
(* Properties of merge_md.py                                               *)

\* the input files that are not empty: the files written to the output
WrittenNames ==
  {name \in DOMAIN input_dir \ {output_file} : Strip(input_dir[name]) # <<>>}

\* how often piece occurs in text
Occurrences(text, piece) ==
  Cardinality({k \in 1..(Len(text) - Len(piece) + 1) :
                 SubSeq(text, k, k + Len(piece) - 1) = piece})

\* where the section of the file begins in the output (0: nowhere)
SectionStart(name) ==
  IF Contains(output, Header(name))
  THEN CHOOSE k \in 1..Len(output) : SubSeq(output, k, k + Len(Header(name)) - 1) = Header(name)
  ELSE 0

\* a and b are p ++ da ++ s and p ++ db ++ s with da, db maximal digit runs
\* and int(da) < int(db)
SmallerNumber(a, b) ==
  \E p \in 0..Len(a), ea \in 1..Len(a), eb \in 1..Len(b) :
    /\ p < ea /\ p < eb
    /\ SubSeq(a, 1, p) = SubSeq(b, 1, p)
    /\ p > 0 => ~IsDigit(a[p])
    /\ AllDigits(SubSeq(a, p + 1, ea)) /\ AllDigits(SubSeq(b, p + 1, eb))
    /\ SubSeq(a, ea + 1, Len(a)) = SubSeq(b, eb + 1, Len(b))
    /\ ea < Len(a) => ~IsDigit(a[ea + 1])
    /\ IntOf(SubSeq(a, p + 1, ea)) < IntOf(SubSeq(b, p + 1, eb))

\* C16: the number of '---' separators in the output is the number of files
\* written minus one.
C16_SeparatorsBetweenWritten ==
  mpc = "written" /\ WrittenNames # {} =>
    Occurrences(output, <<"-", "-", "-">>) = Cardinality(WrittenNames) - 1

\* C17: the sections are in natural-sort order: of two written files whose
\* names differ only in a digit run the one with the smaller number comes
\* first, no section comes before one with a smaller key, every non-empty
\* input file has its section and the output file itself has none.
C17_NaturalOrder ==
  mpc = "written" =>
    /\ \A a, b \in WrittenNames :
         SmallerNumber(a, b) => SectionStart(a) < SectionStart(b)
    /\ \A a, b \in WrittenNames :
         SectionStart(a) < SectionStart(b)
           => ~KeyLess(natural_sort_key(PathStr(b)), natural_sort_key(PathStr(a)))
    /\ \A a \in WrittenNames : SectionStart(a) > 0
    /\ SectionStart(output_file) = 0

\* the directory held file10, file2 and a non-empty earlier output file, and
\* the output has the section of file2 before that of file10
C17_Witness ==
  /\ mpc = "written"
  /\ output_file \in DOMAIN input_dir /\ Strip(input_dir[output_file]) # <<>>
  /\ <<"f", "i", "l", "e", "2", ".", "m", "d">> \in WrittenNames
  /\ <<"f", "i", "l", "e", "1", "0", ".", "m", "d">> \in WrittenNames
  /\ md_files = <<<<"f", "i", "l", "e", "2", ".", "m", "d">>,
                  <<"f", "i", "l", "e", "1", "0", ".", "m", "d">>>>
  /\ SectionStart(<<"f", "i", "l", "e", "2", ".", "m", "d">>)
       < SectionStart(<<"f", "i", "l", "e", "1", "0", ".", "m", "d">>)

====
